---- MODULE Spec2Model ----
(***************************************************************************)
(* A model of bdk_core_staging's keychain script index                     *)
(* (bdk_chain/src/keychain/keychain_txout_index.rs, keychain.rs) and of    *)
(* its coin selector with branch and bound (bdk_core/src/coin_select.rs).  *)
(*                                                                         *)
(* The specifications share the variables: SpecKSI drives the keychain     *)
(* index with two keychains and leaves the coin selector idle, SpecKSI1    *)
(* does so with one keychain, SpecKSIU adds to that the calls that mark    *)
(* scripts used, SpecCS drives the coin selector alone (SpecCSF with the   *)
(* options of fund_outputs, SpecSUF with select_until_finished, SpecEB     *)
(* with whole searches, SpecIT and SpecITFair with the iterator driven to  *)
(* its end, SpecBD with the bounds of the search, SpecFN with finish under *)
(* a feerate of 0 as well, SpecCW with current_weight), and SpecDA appends *)
(* DerivationAdditions to one another.                                     *)
(*                                                                         *)
(* Build modelled: the release build.  u32 arithmetic wraps and            *)
(* debug_assert! is compiled out; what a debug build would have asserted   *)
(* is part of each operation's result (inserted_ok, old_lt_new).           *)
(***************************************************************************)
EXTENDS Integers, Naturals, Sequences, FiniteSets, TLC

VARIABLES
    txout_index,   \* the KeychainTxOutIndex<K>
    emitted,       \* every DerivationAdditions returned so far, appended in call order
    high,          \* per keychain, the furthest the lookahead window has reached so far
    cs,            \* the CoinSelector handed to coin_select_bnb / finish
    bnb,           \* a call of coin_select_bnb: its argument, its BnbState, its result
    out            \* what the last call of finish returned

vars == <<txout_index, emitted, high, cs, bnb, out>>

-----------------------------------------------------------------------------
(* Bounds of the model *)

\* The number of non-hardened child indices, 1 << 31 in the code; u32 holds twice
\* as many values (1 << 32).
MaxDerived == 3
\* The largest lookahead a caller sets.
MaxLookahead == 1
\* The longest batch handed to scan.
MaxBatch == 2
\* The chain pays the wildcard descriptor at indices 0..MaxScanned.
MaxScanned == 1

\* The largest index in the DerivationAdditions handed to append.
MaxAppended == 2
\* The number of times additions are appended to the additions collected.
MaxAppends == 2

\* The number of candidates handed to the coin selector.
MaxCandidates == 3
\* A max_tries that cuts the search short.
FewTries == 2

U32 == 2 * MaxDerived

DERIVED_KEY_COUNT == MaxDerived

\* u32 addition in the release build
wadd(a, b) == (a + b) % U32

Keychains == {"K1", "K2"}

\* BTreeMap iterates its keys in ascending order.
KeychainOrder == <<"K1", "K2">>

\* Descriptors: one with a wildcard, one without, and one with a wildcard under a
\* hardened step, which a public descriptor cannot derive at any index.
Descriptors == {"wild", "single", "hardened"}

has_wildcard(d) == d # "single"

\* descriptor.derived_descriptor(&secp, index).is_ok()
derivable(d, index) == d # "hardened"

\* desc.script_pubkey() of the descriptor derived at index; without a wildcard
\* every index gives the one script.
script_pubkey(d, index) == IF has_wildcard(d) THEN <<d, index>> ELSE <<d, 0>>

EmptyMap == [x \in {} |-> 0]

Max(S) == CHOOSE m \in S : \A x \in S : x <= m

-----------------------------------------------------------------------------
(* DerivationAdditions (keychain.rs) *)

\* A mutant of append: the index of other replaces that of self.
append_overwrite(self, other) == other @@ self

\* A mutant of append: the entries of self that other lacks are lost.
append_drop_self(self, other) == other

append(self, other) ==
    [k \in DOMAIN self \cup DOMAIN other |->
        IF k \in DOMAIN self /\ k \in DOMAIN other
        THEN (IF other[k] >= self[k] THEN other[k] ELSE self[k])
        ELSE IF k \in DOMAIN self THEN self[k] ELSE other[k]]

-----------------------------------------------------------------------------
(* SpkTxOutIndex<(K, u32)>, the inner index *)

SpkTxOutIndex_default ==
    [script_pubkeys |-> EmptyMap, unused |-> {}, txouts |-> {}]

\* spk_indexes: the index a script is stored under, if any
spk_index(inner, spk) == {ki \in DOMAIN inner.script_pubkeys : inner.script_pubkeys[ki] = spk}

\* insert_script_pubkey for every index of `indices` of keychain k, in ascending
\* order; a script that is already stored (under any index) is not stored again.
insert_script_pubkeys(inner, k, d, indices) ==
    LET fresh == {i \in indices : spk_index(inner, script_pubkey(d, i)) = {}}
        new == {<<k, i>> : i \in fresh}
    IN [inner |-> [inner EXCEPT
                    !.script_pubkeys =
                        [ki \in DOMAIN inner.script_pubkeys \cup new |->
                            IF ki \in DOMAIN inner.script_pubkeys
                            THEN inner.script_pubkeys[ki]
                            ELSE script_pubkey(d, ki[2])],
                    !.unused = inner.unused \cup new],
        inserted |-> fresh = indices]

\* SpkTxOutIndex::scan_txout: a txout is its outpoint and its script
inner_scan_txout(inner, txout) ==
    LET hit == spk_index(inner, txout.spk)
    IN IF hit = {} THEN [inner |-> inner, found |-> {}]
       ELSE LET ki == CHOOSE x \in hit : TRUE
            IN [inner |-> [inner EXCEPT !.txouts = @ \cup {<<txout.op, ki>>},
                                        !.unused = @ \ {ki}],
                found |-> {ki}]

\* SpkTxOutIndex::mark_used: the entry leaves the unused set; whether it was in it
inner_mark_used(inner, ki) ==
    [inner |-> [inner EXCEPT !.unused = @ \ {ki}], was_unused |-> ki \in inner.unused]

\* SpkTxOutIndex::unmark_used: an entry that is stored and has no recorded txout is
\* put back into the unused set; whether it was put back
inner_unmark_used(inner, ki) ==
    IF \/ ki \notin DOMAIN inner.script_pubkeys
       \/ \E rec \in inner.txouts : rec[2] = ki
    THEN [inner |-> inner, inserted |-> FALSE]
    ELSE [inner |-> [inner EXCEPT !.unused = @ \cup {ki}], inserted |-> ki \notin inner.unused]

-----------------------------------------------------------------------------
(* KeychainTxOutIndex<K> *)

KeychainTxOutIndex_default ==
    [inner |-> SpkTxOutIndex_default,
     keychains |-> EmptyMap,
     last_revealed |-> EmptyMap,
     lookahead |-> EmptyMap]

\* A mutant of next_of: the last revealed index itself, not the one after it.
next_of_last_revealed(self, k) ==
    IF k \in DOMAIN self.last_revealed THEN self.last_revealed[k] ELSE 0

\* self.last_revealed.get(keychain).map_or(0, |v| *v + 1)
next_of(self, k) ==
    IF k \in DOMAIN self.last_revealed THEN wadd(self.last_revealed[k], 1) ELSE 0

\* self.lookahead.get(keychain).map_or(0, |v| *v)
lookahead_of(self, k) ==
    IF k \in DOMAIN self.lookahead THEN self.lookahead[k] ELSE 0

\* The indices range_descriptor_spks yields over lo..hi (inclusive): it stops at
\* the first index that is not 0 without a wildcard, is not below
\* DERIVED_KEY_COUNT, or fails to derive.
range_descriptor_spks(d, lo, hi) ==
    {i \in lo..hi :
        \A j \in lo..i : (has_wildcard(d) \/ j = 0)
                         /\ j < DERIVED_KEY_COUNT
                         /\ derivable(d, j)}

\* A mutant of add_keychain: the descriptor given last is the keychain's.
add_keychain_rebind(self, k, d) ==
    [self |-> [self EXCEPT !.keychains = (k :> d) @@ @],
     panic |-> IF k \in DOMAIN self.keychains THEN self.keychains[k] # d ELSE FALSE]

add_keychain(self, k, d) ==
    IF k \in DOMAIN self.keychains
    THEN [self |-> self, panic |-> self.keychains[k] # d]
    ELSE [self |-> [self EXCEPT !.keychains = (k :> d) @@ @], panic |-> FALSE]

replenish_lookahead(self, k) ==
    LET d == self.keychains[k]
        next_idx == next_of(self, k)
        lookahead == lookahead_of(self, k)
        \* next_idx..next_idx + lookahead, exclusive
        ins == insert_script_pubkeys(self.inner, k, d,
                   range_descriptor_spks(d, next_idx, wadd(next_idx, lookahead) - 1))
    IN [self |-> [self EXCEPT !.inner = ins.inner], inserted_ok |-> ins.inserted]

\* A mutant of set_lookahead: the lookahead is set and nothing is derived for it.
set_lookahead_no_replenish(self, k, lookahead) ==
    [self |-> [self EXCEPT !.lookahead = (k :> lookahead) @@ @], inserted_ok |-> TRUE]

set_lookahead(self, k, lookahead) ==
    replenish_lookahead([self EXCEPT !.lookahead = (k :> lookahead) @@ @], k)

RECURSIVE set_all_from(_, _, _)
set_all_from(self, n, lookahead) ==
    IF n > Len(KeychainOrder) THEN [self |-> self, inserted_ok |-> TRUE]
    ELSE IF KeychainOrder[n] \notin DOMAIN self.keychains
         THEN set_all_from(self, n + 1, lookahead)
         ELSE LET one == set_lookahead(self, KeychainOrder[n], lookahead)
                  rest == set_all_from(one.self, n + 1, lookahead)
              IN [self |-> rest.self, inserted_ok |-> one.inserted_ok /\ rest.inserted_ok]

set_all_lookaheads(self, lookahead) == set_all_from(self, 1, lookahead)

\* (index, is_new), or the unreachable!() arm
next_index(self, k) ==
    LET d == self.keychains[k]
    IN IF k \notin DOMAIN self.last_revealed THEN [index |-> 0, new |-> TRUE, panic |-> FALSE]
       ELSE IF ~has_wildcard(d) THEN [index |-> 0, new |-> FALSE, panic |-> FALSE]
       ELSE IF self.last_revealed[k] >= DERIVED_KEY_COUNT
            THEN [index |-> self.last_revealed[k], new |-> FALSE, panic |-> TRUE]
       ELSE IF self.last_revealed[k] = DERIVED_KEY_COUNT - 1
            THEN [index |-> self.last_revealed[k], new |-> FALSE, panic |-> FALSE]
       ELSE [index |-> self.last_revealed[k] + 1, new |-> TRUE, panic |-> FALSE]

\* A mutant of reveal_to: a target that is stored as lookahead is not made the
\* revealed index (lines 337-339 left out).
reveal_to_no_lookahead_hit(self, k, target_index0) ==
    LET d == self.keychains[k]
        target_index == IF has_wildcard(d) THEN target_index0 ELSE 0
        next_idx == next_of(self, k)
        lookahead == lookahead_of(self, k)
    IN IF target_index < next_idx
       THEN [self |-> self, additions |-> EmptyMap, inserted_ok |-> TRUE, old_lt_new |-> TRUE]
       ELSE LET new == range_descriptor_spks(d, wadd(next_idx, lookahead),
                                                wadd(target_index, lookahead))
                ins == insert_script_pubkeys(self.inner, k, d, new)
                upto == {i \in new : i <= target_index}
                stored == [self EXCEPT !.inner = ins.inner]
            IN IF upto = {}
               THEN [self |-> stored, additions |-> EmptyMap,
                     inserted_ok |-> ins.inserted, old_lt_new |-> TRUE]
               ELSE [self |-> [stored EXCEPT !.last_revealed = (k :> Max(upto)) @@ @],
                     additions |-> (k :> Max(upto)),
                     inserted_ok |-> ins.inserted,
                     old_lt_new |-> k \notin DOMAIN self.last_revealed
                                    \/ self.last_revealed[k] < Max(upto)]

reveal_to(self, k, target_index0) ==
    LET d == self.keychains[k]
        target_index == IF has_wildcard(d) THEN target_index0 ELSE 0
        next_idx == next_of(self, k)
        lookahead == lookahead_of(self, k)
    IN IF target_index < next_idx
       THEN [self |-> self, additions |-> EmptyMap, inserted_ok |-> TRUE, old_lt_new |-> TRUE]
       ELSE LET \* the target is stored already, due to the lookahead
                hit == IF target_index < wadd(next_idx, lookahead) THEN {target_index} ELSE {}
                \* next_idx + lookahead..=target_index + lookahead
                new == range_descriptor_spks(d, wadd(next_idx, lookahead),
                                                wadd(target_index, lookahead))
                ins == insert_script_pubkeys(self.inner, k, d, new)
                upto == {i \in new : i <= target_index}
                revealed_index == IF upto # {} THEN {Max(upto)} ELSE hit
                stored == [self EXCEPT !.inner = ins.inner]
            IN IF revealed_index = {}
               THEN [self |-> stored, additions |-> EmptyMap,
                     inserted_ok |-> ins.inserted, old_lt_new |-> TRUE]
               ELSE LET index == CHOOSE i \in revealed_index : TRUE
                    IN [self |-> [stored EXCEPT !.last_revealed = (k :> index) @@ @],
                        additions |-> (k :> index),
                        inserted_ok |-> ins.inserted,
                        \* debug_assert!(_old_index < Some(index))
                        old_lt_new |-> k \notin DOMAIN self.last_revealed
                                       \/ self.last_revealed[k] < index]

RECURSIVE reveal_all_from(_, _, _)
reveal_all_from(acc, n, keychains) ==
    IF n > Len(KeychainOrder) THEN acc
    ELSE IF KeychainOrder[n] \notin DOMAIN keychains
         THEN reveal_all_from(acc, n + 1, keychains)
         ELSE LET one == reveal_to(acc.self, KeychainOrder[n], keychains[KeychainOrder[n]])
              IN reveal_all_from([self |-> one.self,
                                  additions |-> append(acc.additions, one.additions),
                                  inserted_ok |-> acc.inserted_ok /\ one.inserted_ok,
                                  old_lt_new |-> acc.old_lt_new /\ one.old_lt_new],
                                 n + 1, keychains)

\* for (keychain, &index) in keychains { additions.append(self.reveal_to(keychain, index)) }
reveal_all_to(self, keychains) ==
    reveal_all_from([self |-> self, additions |-> EmptyMap,
                     inserted_ok |-> TRUE, old_lt_new |-> TRUE], 1, keychains)

apply_additions(self, additions) == reveal_all_to(self, additions).self

\* ((next_index, script), additions); it panics in next_index's unreachable!() arm
\* before anything is done, or when the script is not stored afterwards.
reveal_next_script_pubkey(self, k) ==
    LET next == next_index(self, k)
        r == reveal_to(self, k, next.index)
    IN IF next.panic
       THEN [self |-> self, index |-> next.index, additions |-> EmptyMap,
             inserted_ok |-> TRUE, old_lt_new |-> TRUE, panic |-> TRUE]
       ELSE [self |-> r.self, index |-> next.index, additions |-> r.additions,
             inserted_ok |-> r.inserted_ok, old_lt_new |-> r.old_lt_new,
             panic |-> <<k, next.index>> \notin DOMAIN r.self.inner.script_pubkeys]

\* The (index, script) pairs of keychain k in the range (k, 0)..(k, next_index) of
\* the stored scripts, as a map from the index to the script.
revealed_script_pubkeys(self, k) ==
    LET next == next_of(self, k)
    IN [i \in {j \in 0..(U32 - 1) : /\ <<k, j>> \in DOMAIN self.inner.script_pubkeys
                                    /\ j < next}
          |-> self.inner.script_pubkeys[<<k, i>>]]

\* The same range of the inner index's unused entries.
unused_script_pubkeys(self, k) ==
    LET next == next_of(self, k)
    IN [i \in {j \in 0..(U32 - 1) : <<k, j>> \in self.inner.unused /\ j < next}
          |-> self.inner.script_pubkeys[<<k, i>>]]

\* A mutant of next_unused_script_pubkey: a new script is always revealed.
next_unused_always_new(self, k) == reveal_next_script_pubkey(self, k)

\* ((index, script), additions): the first unused script of the revealed range,
\* or reveal_next_script_pubkey when there is none.
next_unused_script_pubkey(self, k) ==
    LET unused == DOMAIN unused_script_pubkeys(self, k)
        need_new == unused = {}
    IN IF need_new THEN reveal_next_script_pubkey(self, k)
       ELSE [self |-> self, index |-> CHOOSE i \in unused : \A j \in unused : i <= j,
             additions |-> EmptyMap, inserted_ok |-> TRUE, old_lt_new |-> TRUE,
             panic |-> FALSE]

\* self.inner.mark_used(&(keychain.clone(), index))
mark_used(self, k, index) ==
    LET r == inner_mark_used(self.inner, <<k, index>>)
    IN [self |-> [self EXCEPT !.inner = r.inner], result |-> r.was_unused]

\* A mutant of unmark_used: the entry is put back whether or not a txout is recorded.
unmark_used_always(self, k, index) ==
    [self |-> [self EXCEPT !.inner.unused = @ \cup {<<k, index>>}],
     result |-> <<k, index>> \notin self.inner.unused]

\* self.inner.unmark_used(&(keychain.clone(), index))
unmark_used(self, k, index) ==
    LET r == inner_unmark_used(self.inner, <<k, index>>)
    IN [self |-> [self EXCEPT !.inner = r.inner], result |-> r.inserted]

\* match self.inner.scan_txout(op, txout) { Some((k, i)) => self.reveal_to(&k, i), None => default }
scan_txout(self, txout) ==
    LET s == inner_scan_txout(self.inner, txout)
        scanned == [self EXCEPT !.inner = s.inner]
    IN IF s.found = {}
       THEN [self |-> self, found |-> {}, additions |-> EmptyMap,
             inserted_ok |-> TRUE, old_lt_new |-> TRUE]
       ELSE LET ki == CHOOSE x \in s.found : TRUE
                r == reveal_to(scanned, ki[1], ki[2])
            IN [self |-> r.self, found |-> s.found, additions |-> r.additions,
                inserted_ok |-> r.inserted_ok, old_lt_new |-> r.old_lt_new]

RECURSIVE scan_from(_, _, _)
scan_from(acc, n, txouts) ==
    IF n > Len(txouts) THEN acc
    ELSE LET one == scan_txout(acc.self, txouts[n])
         IN scan_from([self |-> one.self,
                       additions |-> append(acc.additions, one.additions),
                       inserted_ok |-> acc.inserted_ok /\ one.inserted_ok,
                       old_lt_new |-> acc.old_lt_new /\ one.old_lt_new],
                      n + 1, txouts)

\* txouts.for_each_txout(|(op, txout)| additions.append(self.scan_txout(op, txout)))
scan(self, txouts) ==
    scan_from([self |-> self, additions |-> EmptyMap,
               inserted_ok |-> TRUE, old_lt_new |-> TRUE], 1, txouts)

-----------------------------------------------------------------------------
(* WeightedValue, CoinSelectorOpt and CoinSelector (coin_select.rs) *)

\* A feerate is counted in quarters of a sat per weight unit (0.25 is 1), which
\* f32 holds exactly, as it does every product below.  An Option is the empty set
\* or a singleton.  Candidates are numbered from 1.

\* A mutant of mul_ceil: the product is cut, not rounded up.
mul_floor(weight, feerate) == (weight * feerate) \div 4

\* (weight as f32 * feerate).ceil()
mul_ceil(weight, feerate) == (weight * feerate + 3) \div 4

\* `as i64` and `as u64` of that many quarters: the fraction is cut off
truncated(quarters) ==
    IF quarters >= 0 THEN quarters \div 4 ELSE -((-quarters) \div 4)

saturating_sub(a, b) == IF a >= b THEN a - b ELSE 0

RECURSIVE sum(_, _)
\* The sum of f over the indices S
sum(f, S) ==
    IF S = {} THEN 0
    ELSE LET x == CHOOSE y \in S : TRUE IN f[x] + sum(f, S \ {x})

effective_value(candidate, opts) ==
    candidate.value - mul_ceil(candidate.weight, opts.target_feerate)

long_term_feerate(opts) ==
    IF opts.long_term_feerate = {} THEN opts.target_feerate
    ELSE CHOOSE f \in opts.long_term_feerate : TRUE

drain_waste(opts) ==
    truncated(opts.drain_weight * opts.target_feerate
              + opts.spend_drain_weight * long_term_feerate(opts))

\* usize: an input count is <<high, low>>, its two digits of base 2^16, since the
\* checker's integers end below 0xffff_ffff.
USIZE_DIGIT == 65536

\* The sum of the counts f over the indices S, with the carry
usize_sum(f, S) ==
    LET upper == sum([i \in DOMAIN f |-> f[i][1]], S)
        lower == sum([i \in DOMAIN f |-> f[i][2]], S)
    IN <<upper + lower \div USIZE_DIGIT, lower % USIZE_DIGIT>>

\* v <= w on usize
usize_le(v, w) == v[1] < w[1] \/ (v[1] = w[1] /\ v[2] <= w[2])

\* A mutant of varint_size: a count beyond 0xffff_ffff is encoded like one below.
varint_size_u32(v) ==
    IF usize_le(v, <<0, 252>>) THEN 1 ELSE IF usize_le(v, <<0, 65535>>) THEN 3 ELSE 5

\* 0xfc, 0xffff and 0xffff_ffff as usize
varint_size(v) ==
    IF usize_le(v, <<0, 252>>) THEN 1
    ELSE IF usize_le(v, <<0, 65535>>) THEN 3
    ELSE IF usize_le(v, <<65535, 65535>>) THEN 5
    ELSE 9

\* CoinSelectorOpt::from_weights: 1 sat/vb, no long term feerate, and the dust
\* limit as min_drain_value
from_weights(base_weight, drain_weight, spend_drain_weight) ==
    [target_value |-> 0,
     max_extra_target |-> 0,
     target_feerate |-> 1,
     long_term_feerate |-> {},
     min_absolute_fee |-> 0,
     base_weight |-> base_weight,
     drain_weight |-> drain_weight,
     spend_drain_weight |-> spend_drain_weight,
     min_drain_value |-> 3 * truncated((drain_weight + spend_drain_weight) * 1)]

\* CoinSelectorOpt::fund_outputs for txouts of target_value in all, given the
\* weights of the template transaction, of the drain output and of spending it
fund_outputs(target_value, base_weight, drain_weight, spend_drain_weight) ==
    [from_weights(base_weight, drain_weight, spend_drain_weight)
        EXCEPT !.target_value = target_value]

CoinSelector_new(candidates, opts) ==
    [candidates |-> candidates, selected |-> {}, opts |-> opts]

\* A mutant of select: the candidate is left out.
select_nothing(self, index) == self

select(self, index) == [self EXCEPT !.selected = @ \cup {index}]

\* A mutant of deselect: the candidate stays selected.
deselect_nothing(self, index) == self

deselect(self, index) == [self EXCEPT !.selected = @ \ {index}]

selected_weight(self) ==
    sum([i \in DOMAIN self.candidates |-> self.candidates[i].weight], self.selected)

selected_effective_value(self) ==
    sum([i \in DOMAIN self.candidates |-> effective_value(self.candidates[i], self.opts)],
        self.selected)

\* A mutant of selected_absolute_value: the values of all the candidates are
\* summed, selected or not.
candidates_absolute_value(self) ==
    sum([i \in DOMAIN self.candidates |-> self.candidates[i].value],
        DOMAIN self.candidates)

selected_absolute_value(self) ==
    sum([i \in DOMAIN self.candidates |-> self.candidates[i].value], self.selected)

selected_waste(self) ==
    truncated(selected_weight(self)
              * (self.opts.target_feerate - long_term_feerate(self.opts)))

current_weight(self) ==
    LET witness_header_extra_weight ==
            IF \E i \in self.selected : self.candidates[i].is_segwit THEN 2 ELSE 0
        input_count ==
            usize_sum([i \in DOMAIN self.candidates |-> self.candidates[i].input_count],
                      self.selected)
        vin_count_varint_extra_weight == (varint_size(input_count) - 1) * 4
    IN self.opts.base_weight + selected_weight(self)
       + witness_header_extra_weight + vin_count_varint_extra_weight

\* A mutant of effective_target: the weight of the template transaction alone,
\* without the witness header and the longer input count.
effective_target_base_only(self) ==
    self.opts.target_value + mul_ceil(self.opts.base_weight, self.opts.target_feerate)

effective_target(self) ==
    LET has_segwit == \E i \in DOMAIN self.candidates : self.candidates[i].is_segwit
        max_input_count ==
            usize_sum([i \in DOMAIN self.candidates |-> self.candidates[i].input_count],
                      DOMAIN self.candidates)
        effective_base_weight ==
            self.opts.base_weight + (IF has_segwit THEN 2 ELSE 0)
            + (varint_size(max_input_count) - 1) * 4
    IN self.opts.target_value + mul_ceil(effective_base_weight, self.opts.target_feerate)

\* A mutant of unselected_indexes: the selected candidates are not left out.
unselected_indexes_all(self) == DOMAIN self.candidates

unselected_indexes(self) == DOMAIN self.candidates \ self.selected

\* A mutant of min: the larger of the two.
larger(a, b) == IF a >= b THEN a ELSE b

\* core::cmp::min
min(a, b) == IF a <= b THEN a ELSE b

\* A mutant of max_by_key: the first of the unsatisfied constraints is taken.
first_unsatisfied(constraints, unsatisfied) ==
    CHOOSE n \in unsatisfied : \A m \in unsatisfied : n <= m

\* A mutant of max_by_key: the first of the elements that have the maximum key.
first_max_by_key(constraints, unsatisfied) ==
    LET largest == {n \in unsatisfied :
                       \A m \in unsatisfied :
                          constraints[m].missing <= constraints[n].missing}
    IN CHOOSE n \in largest : \A m \in largest : n <= m

\* .filter(|&(_, v)| v > 0).max_by_key(|&(_, v)| v) over the constraints at the
\* positions `unsatisfied`: max_by_key returns the last of the elements that have
\* the maximum key.
max_by_key(constraints, unsatisfied) ==
    Max({n \in unsatisfied :
            \A m \in unsatisfied : constraints[m].missing <= constraints[n].missing})

\* The strategies are a map from the ExcessStrategyKind; the error is
\* SelectionFailure::InsufficientFunds.
finish(self) ==
    LET opts == self.opts
        weight_without_drain == current_weight(self)
        weight_with_drain == weight_without_drain + opts.drain_weight
        fee_without_drain0 == mul_ceil(weight_without_drain, opts.target_feerate)
        fee_with_drain0 == mul_ceil(weight_with_drain, opts.target_feerate)
        target_value == opts.target_value
        selected == selected_absolute_value(self)
        constraints ==
            <<[constraint |-> "TargetValue",
               missing |-> saturating_sub(target_value, selected)],
              [constraint |-> "TargetFee",
               missing |-> saturating_sub(target_value + fee_without_drain0, selected)],
              [constraint |-> "MinAbsoluteFee",
               missing |-> saturating_sub(target_value + opts.min_absolute_fee, selected)]>>
        unsatisfied == {n \in DOMAIN constraints : constraints[n].missing > 0}
        largest == max_by_key(constraints, unsatisfied)
        inputs_minus_outputs == selected - target_value
        fee_without_drain ==
            IF fee_without_drain0 >= opts.min_absolute_fee
            THEN fee_without_drain0 ELSE opts.min_absolute_fee
        fee_with_drain ==
            IF fee_with_drain0 >= opts.min_absolute_fee
            THEN fee_with_drain0 ELSE opts.min_absolute_fee
        excess_without_drain == inputs_minus_outputs - fee_without_drain
        input_waste == selected_waste(self)
        extra_recipient_value == min(opts.max_extra_target, excess_without_drain)
        extra_fee == excess_without_drain - extra_recipient_value
        kinds == {"ToFee"}
                 \cup (IF excess_without_drain > 0 /\ opts.max_extra_target > 0
                       THEN {"ToRecipient"} ELSE {})
                 \cup (IF inputs_minus_outputs >= fee_with_drain + opts.min_drain_value
                       THEN {"ToDrain"} ELSE {})
        strategy(kind) ==
            IF kind = "ToFee"
            THEN [recipient_value |-> opts.target_value,
                  drain_value |-> {},
                  fee |-> fee_without_drain + excess_without_drain,
                  weight |-> weight_without_drain,
                  waste |-> input_waste + excess_without_drain]
            ELSE IF kind = "ToRecipient"
            THEN [recipient_value |-> opts.target_value + extra_recipient_value,
                  drain_value |-> {},
                  fee |-> fee_without_drain + extra_fee,
                  weight |-> weight_without_drain,
                  waste |-> input_waste + extra_fee]
            ELSE [recipient_value |-> opts.target_value,
                  drain_value |-> {saturating_sub(inputs_minus_outputs, fee_with_drain)},
                  fee |-> fee_with_drain,
                  weight |-> weight_with_drain,
                  waste |-> input_waste + drain_waste(opts)]
    IN IF unsatisfied # {}
       THEN [ok |-> FALSE,
             selected |-> selected,
             missing |-> constraints[largest].missing,
             constraint |-> constraints[largest].constraint]
       ELSE [ok |-> TRUE,
             selected |-> self.selected,
             excess |-> excess_without_drain,
             excess_strategies |-> [kind \in kinds |-> strategy(kind)]]

\* A mutant of coin_selector_finish: the condition of the ToDrain strategy is that
\* of coin_select.rs.
finish_ungated(self) == finish(self)

\* finish of coin_select/coin_selector.rs.  It is finish of coin_select.rs line by
\* line but for the condition of the ToDrain strategy (lines 371-372), which also
\* asks for fee_with_drain > min_absolute_fee.
coin_selector_finish(self) ==
    LET opts == self.opts
        r == finish(self)
        fee_with_drain0 ==
            mul_ceil(current_weight(self) + opts.drain_weight, opts.target_feerate)
        fee_with_drain ==
            IF fee_with_drain0 >= opts.min_absolute_fee
            THEN fee_with_drain0 ELSE opts.min_absolute_fee
    IN IF r.ok /\ ~(fee_with_drain > opts.min_absolute_fee)
       THEN [r EXCEPT !.excess_strategies =
                [kind \in DOMAIN @ \ {"ToDrain"} |-> @[kind]]]
       ELSE r

\* finish as the file has it: coin_select.rs, or coin_select/coin_selector.rs
finish_of(file, self) ==
    IF file = "coin_select.rs" THEN finish(self) ELSE coin_selector_finish(self)

\* A mutant of first_index: the highest index comes first.
last_index(unselected) == CHOOSE i \in unselected : \A j \in unselected : j <= i

\* The index `for index in unselected` takes next: unselected_indexes filters
\* 0..candidates.len(), so the lowest one
first_index(unselected) == CHOOSE i \in unselected : \A j \in unselected : i <= j

\* select_until_finished from the point where `selection = self.finish()` has just
\* been assigned: a selection that is Ok is returned (the early return, or the
\* break), and so is the last one when nothing is left to select; otherwise the
\* loop selects the next index and calls finish again.
RECURSIVE select_until_finished_from(_, _, _)
select_each(file, self, unselected, selection) ==
    IF selection.ok \/ unselected = {}
    THEN [self |-> self, result |-> selection]
    ELSE select_until_finished_from(file, select(self, first_index(unselected)),
                                    unselected \ {first_index(unselected)})

\* `selection = self.finish()` with the indices still to be taken
select_until_finished_from(file, self, unselected) ==
    select_each(file, self, unselected, finish_of(file, self))

select_until_finished_of(file, self) ==
    select_until_finished_from(file, self, unselected_indexes(self))

\* select_until_finished of coin_select.rs
select_until_finished(self) == select_until_finished_of("coin_select.rs", self)

\* select_until_finished of coin_select/coin_selector.rs
coin_selector_select_until_finished(self) ==
    select_until_finished_of("coin_selector.rs", self)

-----------------------------------------------------------------------------
(* CombinedValue and branch and bound *)

\* i64::MAX, the best metric while there is no best selection; the model's
\* largest integer stands for it.
I64_MAX == 2147483647

CombinedValue_ZERO == [eff_value |-> 0, abs_value |-> 0]

\* A mutant of partial_cmp: the product order, in which values that are greater
\* in one coordinate and less in the other do not compare.
partial_cmp_product_order(self, other) ==
    IF self.eff_value = other.eff_value /\ self.abs_value = other.abs_value
    THEN "Equal"
    ELSE IF self.eff_value >= other.eff_value /\ self.abs_value >= other.abs_value
    THEN "Greater"
    ELSE IF self.eff_value <= other.eff_value /\ self.abs_value <= other.abs_value
    THEN "Less"
    ELSE "None"

partial_cmp(self, other) ==
    IF self.eff_value = other.eff_value /\ self.abs_value = other.abs_value
    THEN "Equal"
    ELSE IF self.eff_value >= other.eff_value /\ self.abs_value >= other.abs_value
    THEN "Greater"
    ELSE IF self.eff_value < other.eff_value \/ self.abs_value < other.abs_value
    THEN "Less"
    ELSE "None"

\* The operators PartialOrd derives from partial_cmp
lt(a, b) == partial_cmp(a, b) = "Less"

gt(a, b) == partial_cmp(a, b) = "Greater"

ge(a, b) == partial_cmp(a, b) \in {"Greater", "Equal"}

add(self, rhs) ==
    [eff_value |-> self.eff_value + rhs.eff_value,
     abs_value |-> self.abs_value + rhs.abs_value]

\* (target_value, upper_bound)
\* A mutant of bounds: the upper bound leaves room for a drain output.
bounds_with_drain(selector) ==
    LET opts == selector.opts
        target_value == [eff_value |-> effective_target(selector),
                         abs_value |-> opts.target_value + opts.min_absolute_fee]
    IN [target_value |-> target_value,
        upper_bound |->
            [eff_value |-> target_value.eff_value + drain_waste(opts)
                           + 4 * opts.min_drain_value,
             abs_value |-> target_value.abs_value
                           + truncated(opts.drain_weight * opts.target_feerate)
                           + 4 * opts.min_drain_value]]

\* A mutant of bounds: the fee of the drain output is rounded up.
bounds_rounded_up(selector) ==
    LET opts == selector.opts
        target_value == [eff_value |-> effective_target(selector),
                         abs_value |-> opts.target_value + opts.min_absolute_fee]
    IN [target_value |-> target_value,
        upper_bound |->
            [eff_value |-> target_value.eff_value + drain_waste(opts),
             abs_value |-> target_value.abs_value
                           + mul_ceil(opts.drain_weight, opts.target_feerate)]]

bounds(selector) ==
    LET opts == selector.opts
        target_value == [eff_value |-> effective_target(selector),
                         abs_value |-> opts.target_value + opts.min_absolute_fee]
    IN [target_value |-> target_value,
        upper_bound |->
            [eff_value |-> target_value.eff_value + drain_waste(opts),
             abs_value |-> target_value.abs_value
                           + truncated(opts.drain_weight * opts.target_feerate)]]

\* The closures coin_select_bnb hands over as value_fn and metric_fn
value_fn(selector, candidate) ==
    [eff_value |-> effective_value(candidate, selector.opts),
     abs_value |-> candidate.value]

metric_fn(selector, candidate) ==
    truncated(candidate.weight
              * (selector.opts.target_feerate - long_term_feerate(selector.opts)))

\* The sum of value_fn over the candidates S
value_sum(selector, S) ==
    [eff_value |-> sum([i \in DOMAIN selector.candidates |->
                           value_fn(selector, selector.candidates[i]).eff_value], S),
     abs_value |-> sum([i \in DOMAIN selector.candidates |->
                           value_fn(selector, selector.candidates[i]).abs_value], S)]

\* additional_metric_fn; target_value is the lower bound
additional_metric_fn(selector, target_value) ==
    selected_effective_value(selector) - target_value.eff_value

\* The pool coin_select_bnb may build: the unselected candidates of positive
\* effective value by descending effective value.  sort_unstable_by leaves the
\* order of candidates of equal effective value open.
Pools(selector) ==
    LET eligible == {i \in unselected_indexes(selector) :
                        effective_value(selector.candidates[i], selector.opts) > 0}
        eff(i) == effective_value(selector.candidates[i], selector.opts)
    IN {pool \in [1..Cardinality(eligible) -> eligible] :
           /\ \A m, n \in DOMAIN pool : m # n => pool[m] # pool[n]
           /\ \A m, n \in DOMAIN pool : m < n => eff(pool[m]) >= eff(pool[n])}

\* The indices of the pool at the positions S (counted from 0)
pool_at(pool, S) == {pool[pos + 1] : pos \in S}

\* BnbState::new; the BnbParams are part of the state
BnbState_new(pool, selector) ==
    LET b == bounds(selector)
        remaining_value == value_sum(selector, pool_at(pool, 0..(Len(pool) - 1)))
        selected_value == value_sum(selector, selector.selected)
    IN [ok |-> ~lt(add(selected_value, remaining_value), b.target_value),
        state |-> [pool |-> pool,
                   target_value |-> b.target_value,
                   upper_bound |-> b.upper_bound,
                   metric_increases |->
                       selector.opts.target_feerate > long_term_feerate(selector.opts),
                   selection |-> selector,
                   best |-> {},
                   pos |-> 0,
                   done |-> FALSE,
                   remaining_value |-> remaining_value]]

current_value(self) == value_sum(self.selection, self.selection.selected)

current_metric(self) ==
    sum([i \in DOMAIN self.selection.candidates |->
            metric_fn(self.selection, self.selection.candidates[i])],
        self.selection.selected)

best_metric(self) == IF self.best = {} THEN I64_MAX ELSE CHOOSE m \in self.best : TRUE

\* A mutant of sub: nothing is taken away.
sub_nothing(self, rhs) == self

sub(self, rhs) ==
    [eff_value |-> self.eff_value - rhs.eff_value,
     abs_value |-> self.abs_value - rhs.abs_value]

\* A mutant of check: a value above the upper bound is not turned away.
check_no_upper_bound(self) ==
    LET value == current_value(self)
    IN IF lt(add(value, self.remaining_value), self.target_value)
       THEN [is_solution |-> FALSE, backtrack |-> TRUE]
       ELSE IF ge(value, self.target_value)
       THEN [is_solution |-> TRUE, backtrack |-> TRUE]
       ELSE IF self.metric_increases /\ current_metric(self) > best_metric(self)
       THEN [is_solution |-> FALSE, backtrack |-> TRUE]
       ELSE [is_solution |-> FALSE, backtrack |-> FALSE]

\* (is_solution, backtrack)
check(self) ==
    LET value == current_value(self)
    IN \* is remaining value enough?
       IF lt(add(value, self.remaining_value), self.target_value)
       THEN [is_solution |-> FALSE, backtrack |-> TRUE]
       \* is current value above range?
       ELSE IF gt(value, self.upper_bound)
       THEN [is_solution |-> FALSE, backtrack |-> TRUE]
       \* is current value within range?
       ELSE IF ge(value, self.target_value)
       THEN [is_solution |-> TRUE, backtrack |-> TRUE]
       ELSE IF self.metric_increases /\ current_metric(self) > best_metric(self)
       THEN [is_solution |-> FALSE, backtrack |-> TRUE]
       ELSE [is_solution |-> FALSE, backtrack |-> FALSE]

\* A mutant of early_bailout: the candidate is skipped for a twin at the previous
\* position whether or not that twin is selected.
early_bailout_selected_twin(self) ==
    /\ self.pos > 0
    /\ self.selection.selected # {}
    /\ LET candidate == self.selection.candidates[self.pool[self.pos + 1]]
           prev_candidate == self.selection.candidates[self.pool[self.pos]]
       IN /\ candidate.value = prev_candidate.value
          /\ candidate.weight = prev_candidate.weight

\* A mutant of early_bailout: the candidate is skipped after any unselected
\* candidate, of the same value and weight or not.
early_bailout_after_any(self) ==
    /\ self.pos > 0
    /\ self.selection.selected # {}
    /\ self.pool[self.pos] \notin self.selection.selected

early_bailout(self) ==
    /\ self.pos > 0
    /\ self.selection.selected # {}
    /\ LET candidate == self.selection.candidates[self.pool[self.pos + 1]]
           prev_index == self.pool[self.pos]
           prev_candidate == self.selection.candidates[prev_index]
       IN /\ prev_index \notin self.selection.selected
          /\ candidate.value = prev_candidate.value
          /\ candidate.weight = prev_candidate.weight

\* Iterator::next.  `some` tells Some(item) from None, best_selection is the item
\* (the selected set of the new best selection, if there is one); `panic` is the
\* index out of the pool's bounds, which leaves the state as it is here.
next(self) ==
    LET c == check(self)
        metric == current_metric(self)
                  + additional_metric_fn(self.selection, self.target_value)
        improved == c.is_solution /\ metric <= best_metric(self)
        best_selection == IF improved THEN {self.selection.selected} ELSE {}
        checked == [self EXCEPT !.best = IF improved THEN {metric} ELSE @]
        \* the positions before pos that hold a selected candidate
        selected_pos == {pos \in 0..(self.pos - 1) :
                            self.pool[pos + 1] \in self.selection.selected}
        last == Max(selected_pos)
        skipped == IF selected_pos = {} THEN 0..(self.pos - 1)
                   ELSE (last + 1)..(self.pos - 1)
        restored == [checked EXCEPT !.remaining_value =
                        add(@, value_sum(self.selection, pool_at(self.pool, skipped)))]
        index == self.pool[self.pos + 1]
        taken == [checked EXCEPT !.remaining_value =
                     sub(@, value_fn(self.selection, self.selection.candidates[index]))]
        moved ==
            IF c.backtrack
            THEN IF selected_pos = {}
                 THEN [restored EXCEPT !.done = TRUE, !.pos = @ + 1]
                 ELSE [restored EXCEPT !.selection = deselect(@, self.pool[last + 1]),
                                       !.pos = last + 1]
            ELSE [taken EXCEPT !.selection = IF early_bailout(taken) THEN @
                                             ELSE select(@, index),
                               !.pos = @ + 1]
    IN IF self.done
       THEN [state |-> self, some |-> FALSE, best_selection |-> {}, panic |-> FALSE]
       ELSE IF ~c.backtrack /\ self.pos >= Len(self.pool)
       THEN [state |-> self, some |-> FALSE, best_selection |-> {}, panic |-> TRUE]
       ELSE [state |-> moved,
             some |-> best_selection # {} \/ ~moved.done,
             best_selection |-> best_selection,
             panic |-> FALSE]

\* A mutant of reduce: the first selection found is kept.
reduce_first(reduced, item) ==
    IF reduced = {} \/ reduced = {{}} THEN {item} ELSE reduced

\* reduce(|b, c| if c.is_some() { c } else { b }) over the items so far: `reduced`
\* is empty before the first item and holds the accumulated Option after it.
reduce(reduced, item) ==
    IF reduced = {} \/ item # {} THEN {item} ELSE reduced

\* What `.reduce(..)?` returns once the iterator has ended
reduced_result(reduced) ==
    IF reduced = {} THEN {} ELSE CHOOSE item \in reduced : TRUE

\* `.take(n).reduce(..)?` from the item r that next has just returned, with
\* `reduced` the fold of the items before it
RECURSIVE take_reduce(_, _, _)
take_reduce(r, n, reduced) ==
    IF r.panic \/ ~r.some THEN reduced_result(reduced)
    ELSE IF n = 1 THEN reduced_result(reduce(reduced, r.best_selection))
    ELSE take_reduce(next(r.state), n - 1, reduce(reduced, r.best_selection))

\* coin_select_bnb once the pool is sorted: None or Some(the selected indices)
coin_select_bnb(max_tries, pool, selector) ==
    LET new == BnbState_new(pool, selector)
    IN IF ~new.ok \/ max_tries = 0 THEN {}
       ELSE take_reduce(next(new.state), max_tries, {})

\* The pool of a stable sort: among candidates of equal effective value the one of
\* the lower index comes first.
StablePools(selector) ==
    {pool \in Pools(selector) :
        \A m, n \in DOMAIN pool :
            (/\ m < n
             /\ effective_value(selector.candidates[pool[m]], selector.opts)
                   = effective_value(selector.candidates[pool[n]], selector.opts))
                => pool[m] < pool[n]}

-----------------------------------------------------------------------------
(* The calls a wallet makes on the index *)

\* The txouts the chain can hold: one outpoint per script of a derivable
\* descriptor, and one paying a script that is nobody's.
TxOuts ==
    {[op |-> <<d, i>>, spk |-> script_pubkey(d, i)] :
        d \in {"wild"}, i \in 0..MaxScanned}
    \cup {[op |-> <<"single", 0>>, spk |-> script_pubkey("single", 0)]}
    \cup {[op |-> <<"foreign", 0>>, spk |-> <<"foreign", 0>>]}

Batches == UNION {[1..n -> TxOuts] : n \in 0..MaxBatch}

CSIdle == [phase |-> "idle"]

Registered == DOMAIN txout_index.keychains

\* The end of keychain k's lookahead window: last_revealed + lookahead, or
\* lookahead - 1 while nothing is revealed (as integers, not as u32).
window_end(self, k) ==
    IF k \in DOMAIN self.last_revealed
    THEN self.last_revealed[k] + lookahead_of(self, k)
    ELSE lookahead_of(self, k) - 1

\* The index after a call, with the additions the call returned appended to
\* what the wallet has persisted.
Returned(self, additions) ==
    /\ txout_index' = self
    /\ emitted' = append(emitted, additions)
    /\ high' = [k \in DOMAIN self.keychains |->
                  IF k \in DOMAIN high /\ high[k] >= window_end(self, k)
                  THEN high[k] ELSE window_end(self, k)]
    /\ UNCHANGED <<cs, bnb, out>>

\* The same for a call whose result r holds the index and the additions.
ReturnedFrom(r) == Returned(r.self, r.additions)

\* add_keychain panics on a different descriptor for a registered keychain, and
\* the index is as before.
AddKeychain(k, d) ==
    Returned(add_keychain(txout_index, k, d).self, EmptyMap)

SetLookahead(k, lookahead) ==
    /\ k \in Registered
    /\ Returned(set_lookahead(txout_index, k, lookahead).self, EmptyMap)

SetAllLookaheads(lookahead) ==
    Returned(set_all_lookaheads(txout_index, lookahead).self, EmptyMap)

RevealTo(k, target_index) ==
    /\ k \in Registered
    /\ ReturnedFrom(reveal_to(txout_index, k, target_index))

\* A map of one keychain is reveal_to; one of an unregistered keychain panics.
RevealAllTo(keychains) ==
    /\ DOMAIN keychains \subseteq Registered
    /\ ReturnedFrom(reveal_all_to(txout_index, keychains))

RevealNextScriptPubkey(k) ==
    /\ k \in Registered
    /\ ReturnedFrom(reveal_next_script_pubkey(txout_index, k))

ScanTxout(txout) ==
    ReturnedFrom(scan_txout(txout_index, txout))

Scan(txouts) ==
    ReturnedFrom(scan(txout_index, txouts))

NextUnusedScriptPubkey(k) ==
    /\ k \in Registered
    /\ ReturnedFrom(next_unused_script_pubkey(txout_index, k))

MarkUsed(k, index) ==
    Returned(mark_used(txout_index, k, index).self, EmptyMap)

UnmarkUsed(k, index) ==
    Returned(unmark_used(txout_index, k, index).self, EmptyMap)

InitKSI ==
    /\ txout_index = KeychainTxOutIndex_default
    /\ emitted = EmptyMap
    /\ high = EmptyMap
    /\ cs = CSIdle
    /\ bnb = CSIdle
    /\ out = CSIdle

-----------------------------------------------------------------------------
(* The calls a wallet makes on the coin selector *)

\* Two candidates of one value and weight (one of them a segwit spend), a heavier
\* one of less value, and a group of 253 inputs that is worth its weight at the
\* lower target_feerate only.
CandidateKinds ==
    {[value |-> 12, weight |-> 4, input_count |-> <<0, 1>>, is_segwit |-> FALSE],
     [value |-> 12, weight |-> 4, input_count |-> <<0, 1>>, is_segwit |-> TRUE],
     [value |-> 9, weight |-> 8, input_count |-> <<0, 1>>, is_segwit |-> FALSE],
     [value |-> 3, weight |-> 8, input_count |-> <<0, 253>>, is_segwit |-> TRUE]}

TargetValues == {8, 16}

\* target_feerate: 0.25 and 0.5 sat/wu
Feerates == {1, 2}

\* long_term_feerate: None, Some(0.25), Some(0.75)
LongTermFeerates == {{}, {1}, {3}}

MinAbsoluteFees == {0, 8}

MaxExtraTargets == {0, 3}

Opts ==
    [target_value : TargetValues,
     max_extra_target : MaxExtraTargets,
     target_feerate : Feerates,
     long_term_feerate : LongTermFeerates,
     min_absolute_fee : MinAbsoluteFees,
     base_weight : {4},
     drain_weight : {8},
     spend_drain_weight : {8},
     min_drain_value : {2}]

\* More tries than any search of the pool takes
Exhaustive == 2 ^ (MaxCandidates + 2)

MaxTries == {0, FewTries, Exhaustive}

\* coin_select_bnb up to the construction of the iterator; with max_tries = 0 or
\* without enough value in the pool it returns None at once.
CoinSelectBnb(max_tries, pool) ==
    /\ bnb.phase = "idle"
    /\ LET new == BnbState_new(pool, cs)
       IN bnb' = [phase |-> IF new.ok /\ max_tries > 0 THEN "running" ELSE "returned",
                  selector |-> cs,
                  state |-> new.state,
                  max_tries |-> max_tries,
                  tries |-> 0,
                  reduced |-> {},
                  panic |-> FALSE,
                  result |-> {}]
    /\ out' = CSIdle
    /\ UNCHANGED <<txout_index, emitted, high, cs>>

\* The rest of a round of `.take(max_tries).reduce(..)` once next has returned r:
\* the item is reduced, and coin_select_bnb returns when the iterator has ended or
\* the tries are used up.  The caller goes on with the selector returned.
Reduced(r) ==
    LET reduced == IF r.some THEN reduce(bnb.reduced, r.best_selection)
                   ELSE bnb.reduced
        tries == IF r.some THEN bnb.tries + 1 ELSE bnb.tries
        ended == r.panic \/ ~r.some \/ tries = bnb.max_tries
        result == IF ended /\ ~r.panic THEN reduced_result(reduced) ELSE {}
    IN /\ bnb' = [bnb EXCEPT !.phase = IF ended THEN "returned" ELSE "running",
                             !.state = r.state,
                             !.tries = tries,
                             !.reduced = reduced,
                             !.panic = r.panic,
                             !.result = result]
       /\ cs' = IF result = {} THEN cs
                ELSE [cs EXCEPT !.selected = CHOOSE selected \in result : TRUE]
       /\ UNCHANGED <<txout_index, emitted, high, out>>

\* One round of coin_select_bnb's iteration
BnbNext ==
    /\ bnb.phase = "running"
    /\ Reduced(next(bnb.state))

Finish ==
    /\ bnb.phase \in {"idle", "returned"}
    /\ out' = [call |-> "finish", result |-> finish(cs)]
    /\ UNCHANGED <<txout_index, emitted, high, cs, bnb>>

\* finish as coin_select/coin_selector.rs has it
CoinSelectorFinish ==
    /\ bnb.phase \in {"idle", "returned"}
    /\ out' = [call |-> "coin_selector::finish", result |-> coin_selector_finish(cs)]
    /\ UNCHANGED <<txout_index, emitted, high, cs, bnb>>

InitCS ==
    /\ txout_index = KeychainTxOutIndex_default
    /\ emitted = EmptyMap
    /\ high = EmptyMap
    /\ \E candidates \in [1..MaxCandidates -> CandidateKinds], opts \in Opts :
          \E selected \in SUBSET (1..MaxCandidates) :
              cs = [CoinSelector_new(candidates, opts) EXCEPT !.selected = selected]
    /\ bnb = CSIdle
    /\ out = CSIdle

\* The options of a caller that funds outputs: fund_outputs for the template
\* weights of Opts, then target_feerate and min_absolute_fee as the caller sets them.
FundFeerates == {0, 1}

FundOpts ==
    {[fund_outputs(target_value, 4, 8, 8) EXCEPT !.target_feerate = target_feerate,
                                                 !.min_absolute_fee = min_absolute_fee] :
        target_value \in TargetValues,
        target_feerate \in FundFeerates,
        min_absolute_fee \in MinAbsoluteFees}

InitCSF ==
    /\ txout_index = KeychainTxOutIndex_default
    /\ emitted = EmptyMap
    /\ high = EmptyMap
    /\ \E candidates \in [1..MaxCandidates -> CandidateKinds], opts \in FundOpts :
          \E selected \in SUBSET (1..MaxCandidates) :
              cs = [CoinSelector_new(candidates, opts) EXCEPT !.selected = selected]
    /\ bnb = CSIdle
    /\ out = CSIdle

NextCS ==
    \/ \E max_tries \in MaxTries, pool \in Pools(cs) : CoinSelectBnb(max_tries, pool)
    \/ BnbNext
    \/ Finish
    \/ CoinSelectorFinish

SpecCS == InitCS /\ [][NextCS]_vars

\* A whole call of coin_select_bnb, once the pool is sorted; the caller goes on
\* with the selector returned.
BnbReturned(pool, result) ==
    /\ out = CSIdle
    /\ cs' = IF result = {} THEN cs
             ELSE [cs EXCEPT !.selected = CHOOSE selected \in result : TRUE]
    /\ out' = [call |-> "coin_select_bnb", pool |-> pool, before |-> cs,
               result |-> result]
    /\ UNCHANGED <<txout_index, emitted, high, bnb>>

CoinSelectBnbToEnd(max_tries, pool) ==
    BnbReturned(pool, coin_select_bnb(max_tries, pool, cs))

\* A search that max_tries does not cut short
NextEB == \E pool \in Pools(cs) : CoinSelectBnbToEnd(Exhaustive, pool)

SpecEB == InitCS /\ [][NextEB]_vars

\* The search state of a BnbState: pos and the pool positions that are selected
search_state(self) ==
    <<self.pos, {pos \in 0..(Len(self.pool) - 1) :
                    self.pool[pos + 1] \in self.selection.selected}>>

\* BnbState::new for a caller that drives the iterator itself, with no take(..):
\* Err leaves no iterator.  `out` keeps the search states the calls of next have
\* started from (a history of the run, not a part of the program).
BnbStateNew(pool) ==
    /\ bnb.phase = "idle"
    /\ bnb' = [phase |-> IF BnbState_new(pool, cs).ok THEN "running" ELSE "refused",
               selector |-> cs,
               state |-> BnbState_new(pool, cs).state,
               panic |-> FALSE]
    /\ out' = [call |-> "BnbState::next", visited |-> {}]
    /\ UNCHANGED <<txout_index, emitted, high, cs>>

\* The caller has called next and got r: it goes on until next returns None.
Iterated(r) ==
    /\ bnb' = [bnb EXCEPT !.phase = IF r.some THEN "running" ELSE "ended",
                          !.state = r.state,
                          !.panic = r.panic]
    /\ out' = [out EXCEPT !.visited = IF bnb.state.done THEN @
                                      ELSE @ \cup {search_state(bnb.state)}]
    /\ UNCHANGED <<txout_index, emitted, high, cs>>

IteratorNext ==
    /\ bnb.phase = "running"
    /\ Iterated(next(bnb.state))

\* CoinSelector::new and the calls of select before the search
CoinSelectorNew(candidates, opts, selected) ==
    /\ cs = CSIdle
    /\ cs' = [CoinSelector_new(candidates, opts) EXCEPT !.selected = selected]
    /\ UNCHANGED <<txout_index, emitted, high, bnb, out>>

InitIT ==
    /\ txout_index = KeychainTxOutIndex_default
    /\ emitted = EmptyMap
    /\ high = EmptyMap
    /\ cs = CSIdle
    /\ bnb = CSIdle
    /\ out = CSIdle

NextIT ==
    \/ /\ cs = CSIdle
       /\ \E candidates \in [1..MaxCandidates -> CandidateKinds], opts \in Opts :
             \E selected \in SUBSET (1..MaxCandidates) :
                 CoinSelectorNew(candidates, opts, selected)
    \/ /\ cs # CSIdle
       /\ \E pool \in Pools(cs) : BnbStateNew(pool)
    \/ IteratorNext

SpecIT == InitIT /\ [][NextIT]_vars

\* A caller that has an iterator goes on calling next until it returns None: weak
\* fairness of IteratorNext, WF_vars(IteratorNext), written out with what enables
\* the call, an iterator that has not returned None, in the place of ENABLED.
IteratorRuns ==
    \/ []<>(bnb.phase # "running")
    \/ []<><<IteratorNext>>_vars

SpecITFair == SpecIT /\ IteratorRuns

\* Options whose drain_weight times target_feerate is whole or not:
\* target_feerate 0, 0.25, 0.5 and 0.75 sat/wu
BoundsFeerates == {0, 1, 2, 3}

DrainWeights == {5, 6, 8}

BoundsOpts ==
    [target_value : TargetValues,
     max_extra_target : {0},
     target_feerate : BoundsFeerates,
     long_term_feerate : LongTermFeerates,
     min_absolute_fee : MinAbsoluteFees,
     base_weight : {4},
     drain_weight : DrainWeights,
     spend_drain_weight : {8},
     min_drain_value : {2}]

InitBD ==
    /\ txout_index = KeychainTxOutIndex_default
    /\ emitted = EmptyMap
    /\ high = EmptyMap
    /\ \E candidates \in [1..MaxCandidates -> CandidateKinds], opts \in BoundsOpts :
          \E selected \in SUBSET (1..MaxCandidates) :
              cs = [CoinSelector_new(candidates, opts) EXCEPT !.selected = selected]
    /\ bnb = CSIdle
    /\ out = CSIdle

\* CombinedValue::bounds(&selector)
Bounds ==
    /\ out = CSIdle
    /\ out' = [call |-> "bounds", result |-> bounds(cs)]
    /\ UNCHANGED <<txout_index, emitted, high, cs, bnb>>

NextBD == Bounds

SpecBD == InitBD /\ [][NextBD]_vars

\* finish of either file, called on any selection under options that include a
\* target_feerate of 0
NextFN ==
    \/ Finish
    \/ CoinSelectorFinish

SpecFN == InitBD /\ [][NextFN]_vars

\* The selector is filled up by select_until_finished of either file
FilledUp(call, filled) ==
    /\ out = CSIdle
    /\ cs' = filled.self
    /\ out' = [call |-> call, before |-> cs, result |-> filled.result]
    /\ UNCHANGED <<txout_index, emitted, high, bnb>>

SelectUntilFinished ==
    FilledUp("select_until_finished", select_until_finished(cs))

CoinSelectorSelectUntilFinished ==
    FilledUp("coin_selector::select_until_finished",
             coin_selector_select_until_finished(cs))

NextSUF ==
    \/ SelectUntilFinished
    \/ CoinSelectorSelectUntilFinished

\* A caller that fills a selector up without branch and bound
SpecSUF == InitCS /\ [][NextSUF]_vars

\* Candidates whose input counts add up to either side of 0xfc, 0xffff and
\* 0xffff_ffff: 1, 252, 0xffff - 252 and 0xffff_ffff - 252 inputs
WeightKinds ==
    {[value |-> 12, weight |-> 4, input_count |-> <<0, 1>>, is_segwit |-> FALSE],
     [value |-> 12, weight |-> 4, input_count |-> <<0, 252>>, is_segwit |-> TRUE],
     [value |-> 9, weight |-> 8, input_count |-> <<0, 65283>>, is_segwit |-> FALSE],
     [value |-> 9, weight |-> 8, input_count |-> <<65535, 65283>>, is_segwit |-> FALSE]}

InitCW ==
    /\ txout_index = KeychainTxOutIndex_default
    /\ emitted = EmptyMap
    /\ high = EmptyMap
    /\ \E candidates \in [1..MaxCandidates -> WeightKinds], opts \in FundOpts :
          cs = CoinSelector_new(candidates, opts)
    /\ bnb = CSIdle
    /\ out = CSIdle

Select(index) ==
    /\ index \notin cs.selected
    /\ cs' = select(cs, index)
    /\ out' = CSIdle
    /\ UNCHANGED <<txout_index, emitted, high, bnb>>

Deselect(index) ==
    /\ index \in cs.selected
    /\ cs' = deselect(cs, index)
    /\ out' = CSIdle
    /\ UNCHANGED <<txout_index, emitted, high, bnb>>

CurrentWeight ==
    /\ out' = [call |-> "current_weight", result |-> current_weight(cs)]
    /\ UNCHANGED <<txout_index, emitted, high, cs, bnb>>

NextCW ==
    \/ \E index \in 1..MaxCandidates : Select(index)
    \/ \E index \in 1..MaxCandidates : Deselect(index)
    \/ CurrentWeight

\* A caller that selects and deselects candidates and asks for the weight
SpecCW == InitCW /\ [][NextCW]_vars

\* The coin selector with the options of fund_outputs
SpecCSF == InitCSF /\ [][NextCS]_vars

\* The keychains of the additions handed to append by themselves
AppendKeychains == {"One", "Two", "Three", "Four"}

\* Every DerivationAdditions over them
Additions ==
    UNION {[ks -> 0..MaxAppended] : ks \in SUBSET AppendKeychains}

\* self.append(other) on the additions collected so far, up to MaxAppends times
AppendAdditions(other) ==
    /\ IF out = CSIdle THEN TRUE ELSE out.n < MaxAppends
    /\ out' = [call |-> "append", self |-> emitted, other |-> other,
               n |-> IF out = CSIdle THEN 1 ELSE out.n + 1]
    /\ emitted' = append(emitted, other)
    /\ UNCHANGED <<txout_index, high, cs, bnb>>

NextDA == \E other \in Additions : AppendAdditions(other)

\* DerivationAdditions by itself: additions are appended to additions
SpecDA == InitKSI /\ [][NextDA]_vars

\* The calls on the keychains ks.
NextOn(ks) ==
    \/ \E k \in ks, d \in Descriptors : AddKeychain(k, d)
    \/ \E k \in ks, lookahead \in 0..MaxLookahead : SetLookahead(k, lookahead)
    \/ \E lookahead \in 0..MaxLookahead : SetAllLookaheads(lookahead)
    \/ \E k \in ks, target_index \in 0..(U32 - 1) : RevealTo(k, target_index)
    \/ \E keychains \in [ks -> 0..(U32 - 1)] : RevealAllTo(keychains)
    \/ \E k \in ks : RevealNextScriptPubkey(k)
    \/ \E txout \in TxOuts : ScanTxout(txout)
    \/ \E txouts \in Batches : Scan(txouts)

NextKSI == NextOn(Keychains)

\* A wallet of two keychains
SpecKSI == InitKSI /\ [][NextKSI]_vars

NextKSI1 == NextOn({"K1"})

\* A wallet of one keychain
SpecKSI1 == InitKSI /\ [][NextKSI1]_vars

\* The calls on one keychain, those that mark scripts used and take the next
\* unused script included.
NextKSIU ==
    \/ NextOn({"K1"})
    \/ NextUnusedScriptPubkey("K1")
    \/ \E index \in 0..(U32 - 1) : MarkUsed("K1", index)
    \/ \E index \in 0..(U32 - 1) : UnmarkUsed("K1", index)

\* A wallet of one keychain that also reserves scripts
SpecKSIU == InitKSI /\ [][NextKSIU]_vars

-----------------------------------------------------------------------------
(* Properties of the keychain index *)

\* The indices keychain k has a stored script for
StoredIdx(self, k) == {i \in 0..(U32 - 1) : <<k, i>> \in DOMAIN self.inner.script_pubkeys}

\* The indices descriptor d yields a script for: from 0 up to where derivation stops
Derivables(d) ==
    {i \in 0..(DERIVED_KEY_COUNT - 1) :
        \A j \in 0..i : (has_wildcard(d) \/ j = 0) /\ derivable(d, j)}

\* Another registered keychain derives the scripts of k's descriptor
Shared(self, k) ==
    \E k2 \in DOMAIN self.keychains : k2 # k /\ self.keychains[k2] = self.keychains[k]

\* The target a reveal_to call can reach at most: the highest derivable index
ClampedTarget(d, target_index) ==
    IF target_index <= Max(Derivables(d)) THEN target_index ELSE Max(Derivables(d))

\* last_revealed(k) after reveal_to(k, target_index), as the sum of the calls so far
ExpectedLastRevealed(self, k, target_index) ==
    LET d == self.keychains[k]
        old == IF k \in DOMAIN self.last_revealed THEN {self.last_revealed[k]} ELSE {}
    IN IF Derivables(d) = {} THEN old
       ELSE {Max(old \cup {ClampedTarget(d, target_index)})}

LastRevealedSet(self, k) ==
    IF k \in DOMAIN self.last_revealed THEN {self.last_revealed[k]} ELSE {}

\* C4: after reveal_to(k, t), whatever was revealed before, last_revealed(k) is the
\* maximum of its former value and t clamped to the highest derivable index (at most
\* DERIVED_KEY_COUNT - 1); a keychain without a wildcard has None or Some(0).
C4_RevealToReachesClampedMax ==
    \A k \in Registered :
        /\ ~has_wildcard(txout_index.keychains[k])
              => LastRevealedSet(txout_index, k) \subseteq {0}
        /\ \A target_index \in 0..(U32 - 1) :
              LastRevealedSet(reveal_to(txout_index, k, target_index).self, k)
                  = ExpectedLastRevealed(txout_index, k, target_index)

\* C9: last_revealed(k) is below DERIVED_KEY_COUNT in every reachable state, so
\* next_index never takes its unreachable!() arm.
C9_LastRevealedBelowBound ==
    \A k \in Registered :
        /\ LastRevealedSet(txout_index, k) \subseteq 0..(DERIVED_KEY_COUNT - 1)
        /\ ~next_index(txout_index, k).panic

SecondScanChangesNothing(r1, txouts) ==
    LET r2 == scan(r1.self, txouts)
    IN /\ r2.self.last_revealed = r1.self.last_revealed
       /\ r2.self.inner.txouts = r1.self.inner.txouts
       /\ append(r1.additions, r2.additions) = r1.additions

\* Every txout of the batch whose script is stored in self is recorded in self
MatchesRecorded(self, txouts) ==
    \A n \in DOMAIN txouts :
        \A ki \in spk_index(self.inner, txouts[n].spk) :
            <<txouts[n].op, ki>> \in self.inner.txouts

Window(self, k, hi) == {i \in 0..hi : i \in Derivables(self.keychains[k])}

RECURSIVE fresh_from(_, _, _)
\* A fresh index given the keychains, descriptors and lookaheads of self
fresh_from(acc, n, self) ==
    IF n > Len(KeychainOrder) THEN acc
    ELSE LET k == KeychainOrder[n]
             added == IF k \in DOMAIN self.keychains
                      THEN add_keychain(acc, k, self.keychains[k]).self ELSE acc
             set == IF k \in DOMAIN self.lookahead
                    THEN set_lookahead(added, k, self.lookahead[k]).self ELSE added
         IN fresh_from(set, n + 1, self)

Scripts(self) == {self.inner.script_pubkeys[ki] : ki \in DOMAIN self.inner.script_pubkeys}

\* C8: apply_additions of everything emitted so far, on a fresh index with the same
\* keychains, descriptors and lookaheads, gives the same last_revealed for every
\* keychain and the same set of stored scripts.
C8_ReplayReconstructs ==
    LET replayed == apply_additions(fresh_from(KeychainTxOutIndex_default, 1, txout_index),
                                    emitted)
    IN /\ replayed.last_revealed = txout_index.last_revealed
       /\ Scripts(replayed) = Scripts(txout_index)

-----------------------------------------------------------------------------
(* Properties of the coin selector *)

\* coin_select_bnb has returned Some(selection), and `selected` is its selected set
BnbReturnedSome(selected) ==
    /\ bnb.phase = "returned"
    /\ ~bnb.panic
    /\ selected \in bnb.result

\* The combined (effective, absolute) value of the candidates S
CombinedOf(selector, S) ==
    [eff_value |-> selected_effective_value([selector EXCEPT !.selected = S]),
     abs_value |-> selected_absolute_value([selector EXCEPT !.selected = S])]

AtLeast(v, lower) ==
    v.eff_value >= lower.eff_value /\ v.abs_value >= lower.abs_value

\* v is above upper: at least upper in both coordinates and not upper itself
Above(v, upper) ==
    /\ v.eff_value >= upper.eff_value
    /\ v.abs_value >= upper.abs_value
    /\ v # upper

\* C1 as stated: the combined value of a selection that branch and bound returns is
\* between the lower and the upper bound in both the effective and the absolute
\* coordinate.
C1_BnbValueWithinBoundsInBothCoordinates ==
    \A selected \in SUBSET (1..MaxCandidates) :
        BnbReturnedSome(selected) =>
            LET v == CombinedOf(bnb.selector, selected)
                b == bounds(bnb.selector)
            IN /\ AtLeast(v, b.target_value)
               /\ AtLeast(b.upper_bound, v)

\* C1 amended: the combined value of a selection that branch and bound returns is at
\* least the lower bound in both coordinates, and it is not above the upper bound:
\* it is the upper bound, or it is below it in at least one coordinate (and may
\* exceed it in the other).
C1_BnbValueAtLeastLowerAndNotAboveUpper ==
    \A selected \in SUBSET (1..MaxCandidates) :
        BnbReturnedSome(selected) =>
            LET v == CombinedOf(bnb.selector, selected)
                b == bounds(bnb.selector)
            IN /\ AtLeast(v, b.target_value)
               /\ ~Above(v, b.upper_bound)

\* Branch and bound has returned a selection for options with a min_absolute_fee
\* whose effective value exceeds the upper bound's while its absolute value is
\* below the upper bound's.
C1_ReturnedBeyondUpperEffectiveValue ==
    \E selected \in SUBSET (1..MaxCandidates) :
        /\ BnbReturnedSome(selected)
        /\ bnb.selector.opts.min_absolute_fee > 0
        /\ bnb.max_tries = Exhaustive
        /\ LET v == CombinedOf(bnb.selector, selected)
               b == bounds(bnb.selector)
           IN /\ v.eff_value > b.upper_bound.eff_value
              /\ v.abs_value < b.upper_bound.abs_value

C3_ToFeeCoversFeerateAndMinFee ==
    (out # CSIdle /\ out.result.ok) =>
        /\ "ToFee" \in DOMAIN out.result.excess_strategies
        /\ 4 * out.result.excess_strategies["ToFee"].fee
               >= current_weight(cs) * cs.opts.target_feerate
        /\ out.result.excess_strategies["ToFee"].fee >= cs.opts.min_absolute_fee

\* finish has succeeded on a selection whose weight times the feerate is not a
\* whole number, without excess: the fee is that product rounded up.
C3_FinishedAtRoundedUpFee ==
    /\ out # CSIdle
    /\ out.result.ok
    /\ out.result.excess = 0
    /\ (current_weight(cs) * cs.opts.target_feerate) % 4 # 0
    /\ 4 * out.result.excess_strategies["ToFee"].fee
           < current_weight(cs) * cs.opts.target_feerate + 4
    /\ out.result.excess_strategies["ToFee"].fee > cs.opts.min_absolute_fee

\* The unselected candidates of positive effective value
Eligible(selector) ==
    {i \in unselected_indexes(selector) :
        effective_value(selector.candidates[i], selector.opts) > 0}

\* Adding some eligible candidates to the preselection gives a value in range
SolutionExists(selector) ==
    \E S \in SUBSET Eligible(selector) :
        LET v == CombinedOf(selector, selector.selected \cup S)
            b == bounds(selector)
        IN AtLeast(v, b.target_value) /\ ~Above(v, b.upper_bound)

\* C10: with a max_tries that does not cut the search short, coin_select_bnb returns
\* Some exactly when some set S of unselected candidates of positive effective
\* value, added to the preselection, has a combined value that is at least the lower
\* bound in both coordinates and not above the upper bound.
C10_BnbFindsSolutionIffOneExists ==
    (bnb.phase = "returned" /\ bnb.max_tries = Exhaustive) =>
        /\ ~bnb.panic
        /\ bnb.tries < bnb.max_tries
        /\ (bnb.result # {}) <=> SolutionExists(bnb.selector)

\* An exhaustive search has returned a selection that adds two candidates to a
\* non-empty preselection, after backtracking.
C10_ExhaustiveSearchFoundPair ==
    /\ bnb.phase = "returned"
    /\ bnb.max_tries = Exhaustive
    /\ bnb.tries > 3
    /\ bnb.selector.selected # {}
    /\ \E selected \in bnb.result :
          Cardinality(selected \ bnb.selector.selected) = 2

\* The waste metric branch and bound gives the selection S: the input waste of its
\* candidates, and its effective value above the lower bound
WasteMetric(selector, S) ==
    sum([i \in DOMAIN selector.candidates |->
            metric_fn(selector, selector.candidates[i])], S)
    + CombinedOf(selector, S).eff_value - bounds(selector).target_value.eff_value

\* The value of S is at least the lower bound and not above the upper bound
WithinBounds(selector, S) ==
    LET v == CombinedOf(selector, S)
        b == bounds(selector)
    IN AtLeast(v, b.target_value) /\ ~Above(v, b.upper_bound)

\* Every selection that adds candidates of positive effective value to the
\* preselection: the selections the search can build
Selections(selector) ==
    {selector.selected \cup S : S \in SUBSET Eligible(selector)}

\* C11: the selection an exhaustive search returns has the least waste metric of
\* the selections within the bounds, whatever the order of target_feerate and
\* long_term_feerate; stated here for the selections the search can build, which
\* are some of all selections.
C11_BnbReturnsMinimumWaste ==
    (bnb.phase = "returned" /\ bnb.max_tries = Exhaustive) =>
        \A selected \in bnb.result :
            \A T \in Selections(bnb.selector) :
                WithinBounds(bnb.selector, T) =>
                    WasteMetric(bnb.selector, selected) <= WasteMetric(bnb.selector, T)

\* C12: in every state of a call of coin_select_bnb the selection of the search
\* holds every candidate that was selected before the call, and whatever it holds
\* beyond them is an unselected candidate of positive effective value; so does the
\* selection the call returns.
C12_BnbKeepsPreselection ==
    bnb.phase \in {"running", "returned"} =>
        /\ bnb.selector.selected \subseteq bnb.state.selection.selected
        /\ bnb.state.selection.selected \ bnb.selector.selected
               \subseteq Eligible(bnb.selector)
        /\ \A selected \in bnb.result :
              /\ bnb.selector.selected \subseteq selected
              /\ selected \ bnb.selector.selected \subseteq Eligible(bnb.selector)

\* A search that began with a preselection, and with an unselected candidate of
\* no positive effective value to leave out, has returned after several rounds a
\* selection that holds the preselection and more.
C12_ReturnedPreselectionAndMore ==
    /\ bnb.phase = "returned"
    /\ bnb.tries > 1
    /\ bnb.selector.selected # {}
    /\ unselected_indexes(bnb.selector) \ Eligible(bnb.selector) # {}
    /\ \E selected \in bnb.result :
          /\ bnb.selector.selected \subseteq selected
          /\ selected # bnb.selector.selected

\* What the selection S of selector lacks for each of the three constraints of
\* finish (0 or less when the constraint is satisfied)
Deficits(selector) ==
    LET selected == selected_absolute_value(selector)
        opts == selector.opts
    IN [TargetValue |-> opts.target_value - selected,
        TargetFee |-> opts.target_value
                      + mul_ceil(current_weight(selector), opts.target_feerate) - selected,
        MinAbsoluteFee |-> opts.target_value + opts.min_absolute_fee - selected]

\* finish called on `before` returned result and left the selector as `after`
FinishFailsAsItShould(before, result, after) ==
    LET deficit == Deficits(before)
        unsatisfied == {c \in DOMAIN deficit : deficit[c] > 0}
    IN /\ after = before
       /\ ~result.ok <=> unsatisfied # {}
       /\ ~result.ok =>
             /\ result.selected = selected_absolute_value(before)
             /\ \A c \in unsatisfied : deficit[c] <= result.missing
             /\ result.constraint \in unsatisfied
             /\ deficit[result.constraint] = result.missing

\* C13: finish (of either file) fails exactly when one of the constraints
\* TargetValue, TargetFee and MinAbsoluteFee is unsatisfied; the error then carries
\* the sum of the selected values, the largest deficit among the unsatisfied
\* constraints and a constraint that has it; the selection is left as it was.
C13_FinishFailsOnLargestDeficit ==
    [][(out' # out /\ out' # CSIdle) => FinishFailsAsItShould(cs, out'.result, cs')]_vars

\* finish has failed on a non-empty selection that satisfies none of the three
\* constraints; the largest deficit is that of MinAbsoluteFee.
C13_FailedOnMinAbsoluteFee ==
    /\ out # CSIdle
    /\ ~out.result.ok
    /\ cs.selected # {}
    /\ \A c \in DOMAIN Deficits(cs) : Deficits(cs)[c] > 0
    /\ out.result.constraint = "MinAbsoluteFee"
    /\ out.result.missing > Deficits(cs)["TargetFee"]

\* max(ceil((current_weight + drain_weight) * target_feerate), min_absolute_fee)
FeeWithDrain(selector) ==
    Max({mul_ceil(current_weight(selector) + selector.opts.drain_weight,
                  selector.opts.target_feerate),
         selector.opts.min_absolute_fee})

\* What the selection has beyond the target, the fee with a drain output and the
\* least drain value
DrainAffordable(selector) ==
    selected_absolute_value(selector) - selector.opts.target_value
        >= FeeWithDrain(selector) + selector.opts.min_drain_value

\* If result has the ToDrain strategy, the drain takes what is left after the
\* target and fee_with_drain, and the fee is fee_with_drain
DrainTakesResidue(selector, result) ==
    "ToDrain" \in DOMAIN result.excess_strategies =>
        LET strategy == result.excess_strategies["ToDrain"]
            residue == selected_absolute_value(selector) - selector.opts.target_value
                       - FeeWithDrain(selector)
        IN /\ strategy.drain_value = {residue}
           /\ residue >= selector.opts.min_drain_value
           /\ strategy.fee = FeeWithDrain(selector)

\* The fee with a drain output is not the min_absolute_fee: the feerate asks for more
FeerateDominates(selector) ==
    mul_ceil(current_weight(selector) + selector.opts.drain_weight,
             selector.opts.target_feerate) > selector.opts.min_absolute_fee

\* C14 as stated: a successful finish has the ToDrain strategy exactly when
\* selected_abs - target_value >= fee_with_drain + min_drain_value, and then the
\* drain value is the residue and the fee is fee_with_drain.
C14_ToDrainIffAffordable ==
    (out # CSIdle /\ out.result.ok) =>
        /\ "ToDrain" \in DOMAIN out.result.excess_strategies <=> DrainAffordable(cs)
        /\ DrainTakesResidue(cs, out.result)

\* C14 amended: that is so for finish of coin_select.rs; finish of
\* coin_select/coin_selector.rs has the ToDrain strategy exactly when, moreover,
\* ceil((current_weight + drain_weight) * target_feerate) > min_absolute_fee.  In
\* both, the drain value is the residue and the fee is fee_with_drain.
C14_ToDrainIffAffordablePerFile ==
    (out # CSIdle /\ out.result.ok) =>
        /\ "ToDrain" \in DOMAIN out.result.excess_strategies
              <=> /\ DrainAffordable(cs)
                  /\ out.call = "coin_selector::finish" => FeerateDominates(cs)
        /\ DrainTakesResidue(cs, out.result)

\* finish of coin_select/coin_selector.rs has succeeded without the ToDrain
\* strategy on a selection that can afford the drain.
C14_AffordableDrainLeftOut ==
    /\ out # CSIdle
    /\ out.call = "coin_selector::finish"
    /\ out.result.ok
    /\ DrainAffordable(cs)
    /\ "ToDrain" \notin DOMAIN out.result.excess_strategies

\* C15: a successful finish has the ToDrain strategy only if
\* ceil((current_weight + drain_weight) * target_feerate) > min_absolute_fee, and
\* the fee of that strategy is greater than min_absolute_fee.
C15_ToDrainFeeAboveMinAbsoluteFee ==
    (out # CSIdle /\ out.result.ok /\ "ToDrain" \in DOMAIN out.result.excess_strategies) =>
        /\ FeerateDominates(cs)
        /\ out.result.excess_strategies["ToDrain"].fee > cs.opts.min_absolute_fee

\* The excess of the selection without a drain output
ExcessWithoutDrain(selector) ==
    selected_absolute_value(selector) - selector.opts.target_value
    - Max({mul_ceil(current_weight(selector), selector.opts.target_feerate),
           selector.opts.min_absolute_fee})

\* C16: a successful finish (of either file) has the ToRecipient strategy exactly
\* when excess_without_drain > 0 and max_extra_target > 0; the recipient then gets
\* target_value and the smaller of max_extra_target and the excess, and the fee
\* gets the rest of the excess.
C16_ToRecipientTakesExtra ==
    (out # CSIdle /\ out.result.ok) =>
        LET excess == ExcessWithoutDrain(cs)
            opts == cs.opts
            strategies == out.result.excess_strategies
        IN /\ "ToRecipient" \in DOMAIN strategies
                 <=> (excess > 0 /\ opts.max_extra_target > 0)
           /\ "ToRecipient" \in DOMAIN strategies =>
                 LET extra == strategies["ToRecipient"].recipient_value - opts.target_value
                 IN /\ extra <= opts.max_extra_target /\ extra <= excess
                    /\ extra = opts.max_extra_target \/ extra = excess
                    /\ strategies["ToRecipient"].fee
                           = strategies["ToFee"].fee - extra
                    /\ strategies["ToRecipient"].fee
                           = Max({mul_ceil(current_weight(cs), opts.target_feerate),
                                  opts.min_absolute_fee}) + (excess - extra)
                    /\ strategies["ToRecipient"].drain_value = {}

\* finish has succeeded with more excess than max_extra_target allows the
\* recipient: the ToRecipient strategy gives max_extra_target to the recipient
\* and the rest to the fee.
C16_ExcessBeyondMaxExtraTarget ==
    /\ out # CSIdle
    /\ out.result.ok
    /\ "ToRecipient" \in DOMAIN out.result.excess_strategies
    /\ ExcessWithoutDrain(cs) > cs.opts.max_extra_target
    /\ out.result.excess_strategies["ToRecipient"].recipient_value
           = cs.opts.target_value + cs.opts.max_extra_target
    /\ out.result.excess_strategies["ToRecipient"].fee
           = out.result.excess_strategies["ToFee"].fee - cs.opts.max_extra_target

-----------------------------------------------------------------------------
(* Properties of DerivationAdditions *)

\* r is the pointwise maximum of a and b; a keychain of one side only keeps its index
PointwiseMax(a, b, r) ==
    /\ DOMAIN r = DOMAIN a \cup DOMAIN b
    /\ \A k \in DOMAIN a \ DOMAIN b : r[k] = a[k]
    /\ \A k \in DOMAIN b \ DOMAIN a : r[k] = b[k]
    /\ \A k \in DOMAIN a \cap DOMAIN b :
          /\ r[k] \in {a[k], b[k]}
          /\ r[k] >= a[k] /\ r[k] >= b[k]

\* C17: append is the pointwise maximum of the two maps; it is associative and
\* commutative, the empty additions are its identity on either side, and no index
\* that was there is lowered.
C17_AppendIsPointwiseMax ==
    (out # CSIdle /\ out.call = "append") =>
        LET a == out.self
            b == out.other
        IN /\ PointwiseMax(a, b, emitted)
           /\ emitted = append(b, a)
           /\ \A c \in Additions :
                 append(emitted, c) = append(a, append(b, c))
           /\ append(a, EmptyMap) = a /\ append(EmptyMap, a) = a
           /\ \A k \in DOMAIN a : emitted[k] >= a[k]

\* Additions were appended that raise one index, hold a lower index for another
\* keychain and bring a new keychain, to additions with a keychain of their own.
C17_AppendedEveryCase ==
    /\ out # CSIdle /\ out.call = "append"
    /\ out.self = [k \in {"One", "Two", "Three"} |->
                      IF k = "One" THEN 2 ELSE IF k = "Two" THEN 0 ELSE 1]
    /\ out.other = [k \in {"One", "Two", "Four"} |->
                       IF k = "One" THEN 1 ELSE IF k = "Two" THEN 2 ELSE 1]
    /\ emitted = [k \in AppendKeychains |->
                     IF k \in {"One", "Two"} THEN 2 ELSE 1]

-----------------------------------------------------------------------------
(* Properties of reveal_to, the enumerators and reveal_next_script_pubkey *)

RevealedRange(self, k) ==
    [i \in UNION {0..last : last \in LastRevealedSet(self, k)}
        |-> script_pubkey(self.keychains[k], i)]

\* C19: after any sequence of operations revealed_script_pubkeys(k) yields exactly
\* the indices 0..=last_revealed(k), nothing when never revealed, each with its
\* stored script, and neither it nor unused_script_pubkeys yields an index above
\* last_revealed(k).
C19_RevealedAreUpToLastRevealed ==
    \A k \in Registered :
        /\ revealed_script_pubkeys(txout_index, k) = RevealedRange(txout_index, k)
        /\ DOMAIN unused_script_pubkeys(txout_index, k)
              \subseteq DOMAIN RevealedRange(txout_index, k)

\* The part of C19 that holds in every state: nothing above last_revealed(k) is
\* enumerated, and what is enumerated is the stored script of its index.
C19_NothingAboveLastRevealed ==
    \A k \in Registered :
        /\ DOMAIN revealed_script_pubkeys(txout_index, k)
              \subseteq DOMAIN RevealedRange(txout_index, k)
        /\ DOMAIN unused_script_pubkeys(txout_index, k)
              \subseteq DOMAIN revealed_script_pubkeys(txout_index, k)
        /\ \A i \in DOMAIN revealed_script_pubkeys(txout_index, k) :
              revealed_script_pubkeys(txout_index, k)[i]
                  = script_pubkey(txout_index.keychains[k], i)

\* Keychain k cannot reveal a further index: its descriptor has no wildcard and
\* index 0 is revealed, or last_revealed(k) is DERIVED_KEY_COUNT - 1.
AtLastIndex(self, k) ==
    \E last \in LastRevealedSet(self, k) :
        \/ ~has_wildcard(self.keychains[k])
        \/ last = DERIVED_KEY_COUNT - 1

\* C20: reveal_next_script_pubkey(k) on a wildcard keychain returns the index after
\* last_revealed(k) (0 when nothing is revealed), sets last_revealed(k) to it and
\* returns additions {k: index}, so successive calls return 0, 1, 2, ...; once the
\* descriptor has no wildcard and index 0 is revealed, or last_revealed(k) is
\* DERIVED_KEY_COUNT - 1, it returns the last revealed index with empty additions
\* and an unchanged index; it never panics on a registered keychain.
C20_RevealNextCountsUp ==
    \A k \in Registered :
        LET r == reveal_next_script_pubkey(txout_index, k)
        IN /\ ~r.panic
           /\ AtLastIndex(txout_index, k) =>
                 /\ {r.index} = LastRevealedSet(txout_index, k)
                 /\ r.additions = EmptyMap
                 /\ r.self = txout_index
           /\ ~AtLastIndex(txout_index, k) =>
                 /\ r.index = IF k \in DOMAIN txout_index.last_revealed
                              THEN txout_index.last_revealed[k] + 1 ELSE 0
                 /\ LastRevealedSet(r.self, k) = {r.index}
                 /\ r.additions = (k :> r.index)

\* The indices of keychain k up to last_revealed(k) that are in the unused set
RevealedUnused(self, k) ==
    {i \in UNION {0..last : last \in LastRevealedSet(self, k)} : <<k, i>> \in self.inner.unused}

ExpectedNextIndex(self, k) ==
    IF k \notin DOMAIN self.last_revealed THEN <<0, TRUE>>
    ELSE IF ~has_wildcard(self.keychains[k]) THEN <<0, FALSE>>
    ELSE IF self.last_revealed[k] = DERIVED_KEY_COUNT - 1 THEN <<self.last_revealed[k], FALSE>>
    ELSE <<self.last_revealed[k] + 1, TRUE>>

\* C22: next_index(k) returns (0, true) when k was never revealed, (0, false) when the
\* descriptor has no wildcard and index 0 is revealed, (last_revealed, false) when
\* last_revealed is DERIVED_KEY_COUNT - 1, and (last_revealed + 1, true) otherwise.
C22_NextIndexCases ==
    \A k \in Registered :
        LET r == next_index(txout_index, k)
        IN /\ ~r.panic
           /\ <<r.index, r.new>> = ExpectedNextIndex(txout_index, k)

\* The cases of C22 with last_revealed(k) below DERIVED_KEY_COUNT
C22_NextIndexCasesBelowBound ==
    \A k \in Registered :
        LastRevealedSet(txout_index, k) \subseteq 0..(DERIVED_KEY_COUNT - 1)
            => LET r == next_index(txout_index, k)
               IN /\ ~r.panic
                  /\ <<r.index, r.new>> = ExpectedNextIndex(txout_index, k)

\* The entries (k, i) a txout is recorded under
Scanned(self) == {rec[2] : rec \in self.inner.txouts}

\* C23: an entry (k, i) that scan_txout has recorded an output for is not in the
\* unused set in any later state, and unmark_used(k, i) returns false and changes
\* nothing; for a stored entry without a recorded output that mark_used took out
\* of the unused set, unmark_used puts it back and returns true.
C23_ScanMarksAreSticky ==
    \A k \in Registered :
        \A index \in 0..(U32 - 1) :
            LET marked == mark_used(txout_index, k, index)
                undone == unmark_used(marked.self, k, index)
                r == unmark_used(txout_index, k, index)
            IN /\ <<k, index>> \in Scanned(txout_index) =>
                     /\ <<k, index>> \notin txout_index.inner.unused
                     /\ ~r.result
                     /\ r.self = txout_index
               /\ marked.result =>
                     /\ <<k, index>> \notin marked.self.inner.unused
                     /\ undone.result
                     /\ undone.self = txout_index

\* One entry is used because a txout paying it was scanned, another because it was
\* marked by hand.
C23_ScannedAndMarked ==
    \E k \in Registered :
        \E i, j \in StoredIdx(txout_index, k) :
            /\ <<k, i>> \in Scanned(txout_index)
            /\ <<k, j>> \notin Scanned(txout_index)
            /\ <<k, j>> \notin txout_index.inner.unused
            /\ unmark_used(txout_index, k, j).result
            /\ ~unmark_used(txout_index, k, i).result

\* What add_keychain does to a registered keychain: nothing for the descriptor it
\* has, a panic and nothing else for another one.
AddKeychainAgain(self) ==
    \A k \in DOMAIN self.keychains :
        \A d \in Descriptors :
            LET r == add_keychain(self, k, d)
            IN /\ r.self = self
               /\ r.panic <=> d # self.keychains[k]

\* C24: add_keychain(id, d) on an id registered with d changes nothing; with another
\* descriptor it panics and the registered descriptor stays; no operation removes a
\* registered keychain or gives it another descriptor.
C24_KeychainsAreKept ==
    [][/\ AddKeychainAgain(txout_index)
       /\ \A k \in Registered :
             /\ k \in DOMAIN txout_index'.keychains
             /\ txout_index'.keychains[k] = txout_index.keychains[k]]_vars

\* A keychain with revealed scripts for which add_keychain with another descriptor
\* panics and with its own descriptor does nothing.
C24_ReaddedKeychain ==
    \E k \in Registered :
        /\ LastRevealedSet(txout_index, k) # {}
        /\ \E d \in Descriptors : add_keychain(txout_index, k, d).panic
        /\ \E d \in Descriptors :
              /\ ~add_keychain(txout_index, k, d).panic
              /\ add_keychain(txout_index, k, d).self = txout_index

\* C25: in every step of every operation last_revealed(k) stays or grows and never
\* goes from Some back to None, and whenever reveal_to writes last_revealed(k) the
\* value written is above the old one (debug_assert!(_old_index < Some(index))).
C25_LastRevealedOnlyGrows ==
    [][\A k \in Registered :
          /\ \A old \in LastRevealedSet(txout_index, k) :
                \E new \in LastRevealedSet(txout_index', k) : old <= new
          /\ \A target_index \in 0..(U32 - 1) :
                reveal_to(txout_index, k, target_index).old_lt_new]_vars

-----------------------------------------------------------------------------
(* Further properties of the coin selector *)

C27_BnbStopsAtMaxTries ==
    bnb.phase \in {"running", "returned"} =>
        /\ bnb.tries <= bnb.max_tries
        /\ bnb.phase = "running" => bnb.tries < bnb.max_tries
        /\ (bnb.phase = "returned" /\ ~bnb.panic) =>
              /\ bnb.max_tries = 0 => bnb.result = {}
              /\ bnb.result = {} <=> bnb.state.best = {}
              /\ \A selected \in bnb.result :
                    /\ WithinBounds(bnb.selector, selected)
                    /\ bnb.state.best = {WasteMetric(bnb.selector, selected)}

\* A search that max_tries cut short after it had recorded a selection, and one it
\* would have bettered: the candidates left out hold a selection of less waste.
C27_CutShortWithSelection ==
    /\ bnb.phase = "returned"
    /\ bnb.max_tries = FewTries
    /\ bnb.tries = FewTries
    /\ ~bnb.state.done
    /\ \E selected \in bnb.result :
          \E better \in Selections(bnb.selector) :
              /\ WithinBounds(bnb.selector, better)
              /\ WasteMetric(bnb.selector, better) < WasteMetric(bnb.selector, selected)

\* The candidates of S counted by value and weight
ByValueAndWeight(selector, S) ==
    [vw \in {<<c.value, c.weight>> : c \in CandidateKinds} |->
        Cardinality({i \in S : <<selector.candidates[i].value,
                                 selector.candidates[i].weight>> = vw})]

\* Two pools that differ only in the order of candidates of equal value and weight
SameUpToTwins(selector, pool, other) ==
    \A pos \in DOMAIN pool :
        /\ selector.candidates[pool[pos]].value = selector.candidates[other[pos]].value
        /\ selector.candidates[pool[pos]].weight = selector.candidates[other[pos]].weight

\* Two results of coin_select_bnb that are both None, or selections with the same
\* number of candidates of each value and weight
SameUpToExchange(selector, a, b) ==
    /\ (a = {}) <=> (b = {})
    /\ \A x \in a, y \in b : ByValueAndWeight(selector, x) = ByValueAndWeight(selector, y)

\* At a pool position where the search neither backtracks nor bails out early the
\* candidate is selected first; it is left out only after a backtrack.
InclusionFirst(self) ==
    (/\ ~self.done
     /\ ~check(self).backtrack
     /\ self.pos < Len(self.pool)
     /\ ~early_bailout(self))
        => self.pool[self.pos + 1] \in next(self).state.selection.selected

\* C28: coin_select_bnb returns one selection for given candidates, options,
\* preselection and max_tries; the pool holds candidates of equal effective value
\* in their order in the candidate list; and for every pool position the inclusion
\* branch is explored before the omission branch.
C28_BnbIsDeterministic ==
    /\ bnb.phase = "idle" =>
          /\ Pools(cs) = StablePools(cs)
          /\ \A max_tries \in MaxTries :
                \A pool, other \in Pools(cs) :
                    coin_select_bnb(max_tries, pool, cs)
                        = coin_select_bnb(max_tries, other, cs)
    /\ bnb.phase = "running" => InclusionFirst(bnb.state)

\* C28 as the code has it: the order of candidates of equal effective value in the
\* pool is open, and coin_select_bnb returns one selection up to that order: for a
\* pool that differs from the one of a stable sort in the order of candidates of
\* equal value and weight both runs return None, or selections with the same
\* number of candidates of each value and weight.  The inclusion branch comes first.
C28_BnbIsDeterministicUpToTies ==
    /\ bnb.phase = "idle" =>
          \A max_tries \in MaxTries \ {0} :
              \A stable \in StablePools(cs) :
                  \A other \in Pools(cs) \ {stable} :
                      SameUpToTwins(cs, stable, other) =>
                          SameUpToExchange(cs, coin_select_bnb(max_tries, stable, cs),
                                               coin_select_bnb(max_tries, other, cs))
    /\ bnb.phase = "running" => InclusionFirst(bnb.state)

\* coin_select_bnb has returned a selection, and with the candidates of equal
\* effective value in another order in the pool it returns another one.
C28_OtherTieOrderOtherSelection ==
    /\ bnb.phase = "returned"
    /\ bnb.result # {}
    /\ bnb.tries > 1
    /\ bnb.result = coin_select_bnb(bnb.max_tries, bnb.state.pool, bnb.selector)
    /\ \E other \in Pools(bnb.selector) :
          /\ other # bnb.state.pool
          /\ coin_select_bnb(bnb.max_tries, other, bnb.selector) # bnb.result
          /\ coin_select_bnb(bnb.max_tries, other, bnb.selector) # {}

\* The first n of the unselected indices of a selector, in ascending order
AscendingPrefix(self, n) ==
    {i \in unselected_indexes(self) :
        Cardinality({j \in unselected_indexes(self) : j < i}) < n}

\* The selector with the first n unselected candidates selected as well
WithPrefix(self, n) == [self EXCEPT !.selected = @ \cup AscendingPrefix(self, n)]

\* The lengths of the ascending prefixes that make finish succeed
FinishingPrefixes(file, self) ==
    {n \in 0..Cardinality(unselected_indexes(self)) : finish_of(file, WithPrefix(self, n)).ok}

\* The number of candidates select_until_finished is to select: as few as make
\* finish succeed, or all that are left
PrefixToSelect(file, self) ==
    IF FinishingPrefixes(file, self) = {} THEN Cardinality(unselected_indexes(self))
    ELSE CHOOSE n \in FinishingPrefixes(file, self) :
             \A m \in FinishingPrefixes(file, self) : n <= m

FilledUpAsItShould(file, before, after, result) ==
    /\ after = WithPrefix(before, PrefixToSelect(file, before))
    /\ result = finish_of(file, after)
    /\ finish_of(file, before).ok => after = before
    /\ ~result.ok => after.selected = DOMAIN before.candidates

\* C29: select_until_finished (of either file) returns the result of finish and
\* selects nothing when finish succeeds at once; otherwise it ends with the initial
\* selection and the shortest ascending prefix of the unselected indices after
\* which finish succeeds, and returns that result; when no prefix does, every
\* candidate is selected and the error of finish on all of them is returned.
C29_SelectUntilFinishedTakesShortestPrefix ==
    [][(out' # out) =>
          FilledUpAsItShould(IF out'.call = "select_until_finished"
                             THEN "coin_select.rs" ELSE "coin_selector.rs",
                             cs, cs', out'.result)]_vars

\* select_until_finished has selected the candidates 1 and 2, not 3, on top of an
\* empty selection, and finish succeeded only then.
C29_TwoSelectedThirdLeft ==
    /\ out # CSIdle
    /\ out.before.selected = {}
    /\ cs.selected = {1, 2}
    /\ out.result.ok
    /\ ~finish(WithPrefix(out.before, 1)).ok

\* The size of the varint of the selected candidates' input counts, from the sums
\* of their digits: the count is High * 2^16 + Low
ExpectedVarintSize(self) ==
    LET High == sum([i \in DOMAIN self.candidates |-> self.candidates[i].input_count[1]],
                    self.selected)
        Low == sum([i \in DOMAIN self.candidates |-> self.candidates[i].input_count[2]],
                   self.selected)
        \* the count divided by 2^16
        Quotient == High + Low \div 65536
    IN IF Quotient = 0 /\ Low <= 252 THEN 1
       ELSE IF Quotient = 0 THEN 3
       ELSE IF Quotient < 65536 THEN 5
       ELSE 9

\* C30: current_weight() is base_weight, plus the weights of the selected
\* candidates, plus 2 if one of them is segwit, plus 4 for each byte that the varint
\* of the sum of their input counts takes beyond one: the varint takes 1 byte up to
\* 0xfc, 3 up to 0xffff, 5 up to 0xffff_ffff and 9 above.  Unselected candidates
\* add nothing.
C30_CurrentWeightFormula ==
    (out # CSIdle /\ out.call = "current_weight") =>
        out.result
            = cs.opts.base_weight
              + sum([i \in DOMAIN cs.candidates |-> cs.candidates[i].weight], cs.selected)
              + (IF \E i \in cs.selected : cs.candidates[i].is_segwit THEN 2 ELSE 0)
              + (ExpectedVarintSize(cs) - 1) * 4

\* current_weight was called on a selection of more than 0xffff_ffff inputs, no
\* segwit one among them, with an unselected segwit candidate left out: 32 for the
\* varint on top of the weights.
C30_WeightWithNineByteVarint ==
    /\ out # CSIdle
    /\ out.call = "current_weight"
    /\ ExpectedVarintSize(cs) = 9
    /\ \A i \in cs.selected : ~cs.candidates[i].is_segwit
    /\ \E i \in DOMAIN cs.candidates \ cs.selected : cs.candidates[i].is_segwit
    /\ out.result = cs.opts.base_weight + 32
                    + sum([i \in DOMAIN cs.candidates |-> cs.candidates[i].weight], cs.selected)

-----------------------------------------------------------------------------
(* Properties of the branch and bound search *)

\* The sum of value_fn over the pool from position pos to its end
RestOfPool(self) ==
    value_sum(self.selection, pool_at(self.pool, self.pos..(Len(self.pool) - 1)))

\* C31: whenever the search is about to take a step (the iterator is not done),
\* remaining_value is the sum of value_fn over pool[pos..] in both coordinates,
\* whatever inclusions, early bailouts and backtracks led there; pos is within
\* 0..pool.len().
C31_RemainingValueIsRestOfPool ==
    (bnb.phase \in {"running", "returned"} /\ ~bnb.state.done) =>
        /\ bnb.state.pos \in 0..Len(bnb.state.pool)
        /\ bnb.state.remaining_value = RestOfPool(bnb.state)

\* The search has come back from the first position of a pool of three and has
\* selected the second: position 0 is left out, position 1 is selected, and the
\* third candidate is what remains.
C31_BacktrackedThenSelected ==
    /\ bnb.phase = "running"
    /\ ~bnb.state.done
    /\ Len(bnb.state.pool) = 3
    /\ bnb.state.pos = 2
    /\ bnb.state.pool[1] \notin bnb.state.selection.selected
    /\ bnb.state.pool[2] \in bnb.state.selection.selected
    /\ bnb.state.remaining_value.abs_value > 0

\* The pool positions before pos that hold a selected candidate
SelectedPositions(self) ==
    {pos \in 0..(self.pos - 1) : self.pool[pos + 1] \in self.selection.selected}

\* A step of the search that backtracks to a selected position
BacktrackStep ==
    /\ bnb.phase = "running"
    /\ bnb' # bnb
    /\ ~bnb.state.done
    /\ check(bnb.state).backtrack
    /\ SelectedPositions(bnb.state) # {}

\* The positions strictly between the position backtracked to and pos
SkippedPositions(self) == (Max(SelectedPositions(self)) + 1)..(self.pos - 1)

\* What a backtrack does besides restoring remaining_value: the candidate at the
\* last selected position p is deselected and pos becomes p + 1.
BacktrackedTo(self, after) ==
    /\ after.pos = Max(SelectedPositions(self)) + 1
    /\ after.selection.selected =
           self.selection.selected \ {self.pool[Max(SelectedPositions(self)) + 1]}

\* remaining_value grows by the sum of value_fn over the pool positions S
GrowsBy(self, after, S) ==
    /\ after.remaining_value.eff_value =
           self.remaining_value.eff_value
           + value_sum(self.selection, pool_at(self.pool, S)).eff_value
    /\ after.remaining_value.abs_value =
           self.remaining_value.abs_value
           + value_sum(self.selection, pool_at(self.pool, S)).abs_value

\* C32 as stated: a backtrack that deselects position p and moves pos to p + 1
\* adds to remaining_value the value of the candidate at p and of every skipped
\* candidate between p and the old pos.
C32_BacktrackReaddsDeselectedAndSkipped ==
    [][BacktrackStep =>
          /\ BacktrackedTo(bnb.state, bnb'.state)
          /\ GrowsBy(bnb.state, bnb'.state,
                     {Max(SelectedPositions(bnb.state))}
                         \cup SkippedPositions(bnb.state))]_vars

\* C32, amended: a backtrack that deselects position p and moves pos to p + 1
\* adds to remaining_value the value of every unselected candidate strictly
\* between p and the old pos, and not the value of the candidate at p.
C32_BacktrackReaddsSkippedOnly ==
    [][BacktrackStep =>
          /\ BacktrackedTo(bnb.state, bnb'.state)
          /\ GrowsBy(bnb.state, bnb'.state, SkippedPositions(bnb.state))]_vars

\* The search is back at position 1 with the first candidate of the pool left out,
\* after more steps than selecting it and deselecting it at once take: the
\* backtrack came from further down and re-added what it walked back over.
C32_BackFromFurtherDown ==
    /\ bnb.phase = "running"
    /\ ~bnb.state.done
    /\ Len(bnb.state.pool) >= 2
    /\ bnb.state.pos = 1
    /\ bnb.state.pool[1] \notin bnb.state.selection.selected
    /\ bnb.tries >= 3
    /\ bnb.state.remaining_value = RestOfPool(bnb.state)

\* A step of the search as it would be without the early bailout rule: where next
\* has left the candidate at pos unselected because of the rule, it is selected.
Unbailed(self, r) ==
    IF /\ ~self.done
       /\ ~r.panic
       /\ ~check(self).backtrack
       /\ early_bailout(self)
    THEN [r EXCEPT !.state.selection = select(@, self.pool[self.pos + 1])]
    ELSE r

next_without_bailout(self) == Unbailed(self, next(self))

\* The state in which the search ends when nothing cuts it short, with the early
\* bailout rule or without it
RECURSIVE RunToEnd(_, _)
RunToEnd(r, rule) ==
    IF r.panic \/ r.state.done THEN r.state
    ELSE RunToEnd(IF rule THEN next(r.state) ELSE next_without_bailout(r.state), rule)

\* The search of pool for selector, from its first state to its end
Exhausted(pool, selector, rule) ==
    RunToEnd([state |-> BnbState_new(pool, selector).state, panic |-> FALSE], rule)

\* coin_select_bnb has returned `result`, the search with the rule has ended in
\* `bailing` and the search without it in `selecting`
SameOutcome(selector, result, bailing, selecting) ==
    /\ bailing.done /\ selecting.done
    /\ bailing.best = selecting.best
    /\ (result # {}) <=> (selecting.best # {})
    /\ \A selected \in result : selecting.best = {WasteMetric(selector, selected)}

\* C33: run to exhaustion, coin_select_bnb returns Some exactly when the search
\* without the early bailout rule finds a selection, and the best metric of both
\* searches is the same; preselected candidates included.
C33_EarlyBailoutLosesNothing ==
    (/\ out # CSIdle
     /\ out.call = "coin_select_bnb"
     /\ BnbState_new(out.pool, out.before).ok) =>
        SameOutcome(out.before, out.result,
                    Exhausted(out.pool, out.before, TRUE),
                    Exhausted(out.pool, out.before, FALSE))

\* The search as it stands at position 1 once it has come back from selecting the
\* first candidate of the pool, which was a solution of metric `best`
BackAtSecond(pool, selector, best) ==
    [BnbState_new(pool, selector).state EXCEPT
        !.pos = 1,
        !.best = {best},
        !.remaining_value = value_sum(selector, pool_at(pool, 1..(Len(pool) - 1)))]

\* A pool of two candidates of one value and weight and a selection that is not
\* empty only because of preselected candidates: the first of the two is a
\* solution, and back at position 1 the rule left the second unselected; the call
\* returned the preselection with the first.
C33_TwinSkippedAfterPreselection ==
    /\ out # CSIdle
    /\ out.call = "coin_select_bnb"
    /\ out.before.selected # {}
    /\ Len(out.pool) = 2
    /\ out.result = {out.before.selected \cup {out.pool[1]}}
    /\ LET back == BackAtSecond(out.pool, out.before,
                                WasteMetric(out.before,
                                            out.before.selected \cup {out.pool[1]}))
       IN /\ ~check(back).backtrack
          /\ early_bailout(back)

\* The call of next that is about to be made starts from a search state no
\* earlier call started from
NotVisitedBefore ==
    (bnb.phase = "running" /\ ~bnb.state.done) =>
        search_state(bnb.state) \notin out.visited

\* The iterator has returned None with done set, and without indexing the pool
\* out of its bounds
IteratorEnded ==
    /\ bnb.phase = "ended"
    /\ bnb.state.done
    /\ ~bnb.panic

\* C34: with no max_tries the iterator comes to its end for every pool: it reaches
\* the state in which the backtrack has found no selected pool position and done
\* is set, returns None and is not called again; and no call of next starts from
\* a search state (pos, selected pool positions) an earlier call started from.
C34_IteratorEndsWithoutRevisit ==
    /\ []NotVisitedBefore
    /\ [](bnb.phase = "ended" => IteratorEnded)
    /\ (bnb.phase = "running") ~> IteratorEnded

\* An iterator that ended after calls of next from eight search states or more
C34_EndedAfterLongSearch ==
    /\ IteratorEnded
    /\ Cardinality(out.visited) >= 8

\* The lower bound of bounds and the effective value of its upper bound
LowerAndDrainWaste(selector, b) ==
    /\ b.target_value.eff_value = effective_target(selector)
    /\ b.target_value.abs_value =
           selector.opts.target_value + selector.opts.min_absolute_fee
    /\ b.upper_bound.eff_value = b.target_value.eff_value + drain_waste(selector.opts)

\* What the upper bound adds to the lower bound's absolute value
DrainFeeOfBounds(b) == b.upper_bound.abs_value - b.target_value.abs_value

\* C35 as stated: lower = (effective_target, target_value + min_absolute_fee) and
\* upper = lower + (drain_waste, drain_weight x target_feerate rounded up); the
\* feerate is in quarters.
C35_UpperBoundAddsDrainFeeRoundedUp ==
    (out # CSIdle /\ out.call = "bounds") =>
        /\ LowerAndDrainWaste(cs, out.result)
        /\ 4 * DrainFeeOfBounds(out.result)
               >= cs.opts.drain_weight * cs.opts.target_feerate
        /\ 4 * (DrainFeeOfBounds(out.result) - 1)
               < cs.opts.drain_weight * cs.opts.target_feerate

\* C35, amended: lower = (effective_target, target_value + min_absolute_fee) and
\* upper = lower + (drain_waste, drain_weight x target_feerate with its fraction
\* cut off).
C35_UpperBoundAddsDrainFeeCutOff ==
    (out # CSIdle /\ out.call = "bounds") =>
        /\ LowerAndDrainWaste(cs, out.result)
        /\ 4 * DrainFeeOfBounds(out.result)
               <= cs.opts.drain_weight * cs.opts.target_feerate
        /\ 4 * (DrainFeeOfBounds(out.result) + 1)
               > cs.opts.drain_weight * cs.opts.target_feerate

\* Bounds for a drain_weight of 5 at 0.75 sat/wu: 3.75 sat, of which 3 are added
C35_BoundsWithFractionalDrainFee ==
    /\ out # CSIdle
    /\ out.call = "bounds"
    /\ cs.opts.drain_weight = 5
    /\ cs.opts.target_feerate = 3
    /\ DrainFeeOfBounds(out.result) = 3

\* C36: whenever check decides to select more (returns (false, false)), pos is
\* below pool.len(): with pos at pool.len() it backtracks, whatever the bounds, and
\* next never indexes the pool out of its bounds.
C36_SelectMoreStaysInPool ==
    /\ bnb.phase \in {"running", "ended"} => ~bnb.panic
    /\ (bnb.phase = "running" /\ ~bnb.state.done) =>
          /\ ~check(bnb.state).backtrack => bnb.state.pos < Len(bnb.state.pool)
          /\ bnb.state.pos >= Len(bnb.state.pool) => check(bnb.state).backtrack

\* The search at the end of a pool of three with a selection whose effective value
\* has reached the lower bound and whose absolute value has not: check backtracks.
C36_AtEndOfPoolBelowInOneCoordinate ==
    /\ bnb.phase = "running"
    /\ ~bnb.state.done
    /\ Len(bnb.state.pool) = 3
    /\ bnb.state.pos = 3
    /\ current_value(bnb.state).eff_value >= bnb.state.target_value.eff_value
    /\ current_value(bnb.state).abs_value < bnb.state.target_value.abs_value
    /\ check(bnb.state) = [is_solution |-> FALSE, backtrack |-> TRUE]

-----------------------------------------------------------------------------
(* Further properties of the keychain index *)

\* C37: after any sequence of add_keychain, set_lookahead, set_all_lookaheads,
\* reveal_to and scan_txout, every insertion the next call of set_lookahead,
\* set_all_lookaheads or reveal_to makes is of a (keychain, index) that is not yet
\* stored: the assertion "must not have existing spk" holds in it.
C37_InsertionsAreOfNewScripts ==
    /\ \A k \in Registered :
          /\ \A lookahead \in 0..MaxLookahead :
                set_lookahead(txout_index, k, lookahead).inserted_ok
          /\ \A target_index \in 0..(U32 - 1) :
                reveal_to(txout_index, k, target_index).inserted_ok
    /\ \A lookahead \in 0..MaxLookahead :
          set_all_lookaheads(txout_index, lookahead).inserted_ok

\* C38: the DerivationAdditions returned since the index was empty, appended in
\* call order, are the map last_revealed_indices(): every change of a keychain's
\* last revealed index was reported, with the index it was set to.
C38_AdditionsAreLastRevealedIndices ==
    emitted = txout_index.last_revealed

-----------------------------------------------------------------------------
(* Further properties of finish *)

\* The sum of the values of the selected candidates
SelectedValue(selector) ==
    sum([i \in DOMAIN selector.candidates |-> selector.candidates[i].value],
        selector.selected)

\* The value the strategy hands out: to the recipient, to the fee and to the
\* drain output, if there is one
ValueOut(strategy) ==
    strategy.recipient_value + strategy.fee
    + sum([v \in strategy.drain_value |-> v], strategy.drain_value)

\* The subtractions of finish on unsigned integers have a minuend that is not
\* below the subtrahend: selected - target_value, inputs_minus_outputs -
\* fee_without_drain, and excess_without_drain - extra_recipient_value.
NoUnderflow(selector, result) ==
    /\ SelectedValue(selector) >= selector.opts.target_value
    /\ SelectedValue(selector) - selector.opts.target_value
           >= Max({mul_ceil(current_weight(selector), selector.opts.target_feerate),
                   selector.opts.min_absolute_fee})
    /\ result.excess >= 0
    /\ \A kind \in DOMAIN result.excess_strategies :
          /\ result.excess_strategies[kind].recipient_value
                 - selector.opts.target_value <= result.excess
          /\ result.excess_strategies[kind].fee >= 0
          /\ \A v \in result.excess_strategies[kind].drain_value : v >= 0

\* C39: in every strategy of a successful finish (of either file) recipient_value
\* + fee + drain_value (0 without a drain output) is the sum of the values of the
\* selected candidates, and no unsigned subtraction of finish underflows.
C39_FinishConservesValue ==
    (out # CSIdle /\ out.result.ok) =>
        /\ \A kind \in DOMAIN out.result.excess_strategies :
              ValueOut(out.result.excess_strategies[kind]) = SelectedValue(cs)
        /\ NoUnderflow(cs, out.result)

\* finish has succeeded with all three strategies on a part of the candidates:
\* the recipient gets less than the excess and the drain output gets something.
C39_ThreeStrategiesOfOneSelection ==
    /\ out # CSIdle
    /\ out.result.ok
    /\ DOMAIN out.result.excess_strategies = {"ToFee", "ToRecipient", "ToDrain"}
    /\ cs.selected # DOMAIN cs.candidates
    /\ out.result.excess_strategies["ToRecipient"].recipient_value
           - cs.opts.target_value < out.result.excess
    /\ \E v \in out.result.excess_strategies["ToDrain"].drain_value : v > 0

\* The place of each constraint in the list finish goes through
ListedAt ==
    [TargetValue |-> 1, TargetFee |-> 2, MinAbsoluteFee |-> 3]

\* The unsatisfied constraints of selector that have the largest deficit
LargestUnsatisfied(selector) ==
    LET deficit == Deficits(selector)
    IN {c \in DOMAIN deficit :
           /\ deficit[c] > 0
           /\ \A d \in DOMAIN deficit : deficit[d] <= deficit[c]}

\* C40: a failing finish (of either file) reports, of the unsatisfied constraints
\* that have the largest deficit, the one listed last: MinAbsoluteFee before
\* TargetFee before TargetValue.  The constraint reported is never TargetValue.
C40_LastOfLargestDeficitsReported ==
    (out # CSIdle /\ ~out.result.ok) =>
        /\ out.result.constraint \in LargestUnsatisfied(cs)
        /\ \A c \in LargestUnsatisfied(cs) :
              ListedAt[c] <= ListedAt[out.result.constraint]
        /\ out.result.constraint # "TargetValue"

\* finish has failed on a selection below target_value for which the three
\* deficits are the same; MinAbsoluteFee is reported.
C40_ThreeDeficitsTie ==
    /\ out # CSIdle
    /\ ~out.result.ok
    /\ cs.selected # {}
    /\ SelectedValue(cs) < cs.opts.target_value
    /\ LargestUnsatisfied(cs) = {"TargetValue", "TargetFee", "MinAbsoluteFee"}
    /\ out.result.constraint = "MinAbsoluteFee"

====
